---- MODULE Spec2Model ----
(***************************************************************************)
(* State-machine model of ov::npuw::JustInferRequest, the synchronous      *)
(* partitioned-inference executor of the NPUW plugin                       *)
(* (src/plugins/intel_npu/src/plugin/npuw/just_sync_infer_request.cpp).    *)
(*                                                                         *)
(* Subgraph indices are 0-based as in the source.  Tensors are modelled by *)
(* identity: a tensor is a 4-tuple <<kind, a, b, c>> whose first element   *)
(* names where it was allocated.  A subrequest handle is a record of the   *)
(* tensors bound to its input and output ports.                            *)
(***************************************************************************)
EXTENDS Integers, Sequences, FiniteSets, TLC

\* ---------------------------------------------------------------- bounds
NumDevices == 2       \* length of the fallback device list m_dev_list
MaxInfer == 2         \* inferences (calls of infer()) explored per behaviour
MaxFailures == 2      \* failures the environment injects per behaviour
MaxNway == 3          \* largest spatial.nway of the element-level spatial loop
MaxNwayIters == 3     \* largest spatial.nway_iters of the element-level spatial loop
MaxRows == 2          \* most rows of a 4-bit tensor
MaxCols == 3          \* most columns (COLS) of a 4-bit tensor

NONE == -1            \* an empty std::optional / NO_LINK component
NULL == 0             \* an empty RqPtr

\* ---------------------------------------------------------------- tensors
Tn(k, a, b, c) == <<k, a, b, c>>
NoTensor == Tn("none", 0, 0, 0)
OwnIn(h, p) == Tn("own_in", h, p, 0)          \* tensor a fresh handle allocates for input p
OwnOut(h, p) == Tn("own_out", h, p, 0)        \* tensor a fresh handle allocates for output p
InputTensor(g) == Tn("global_in", g, 0, 0)
OutputTensor(g) == Tn("global_out", g, 0, 0)
ClosureTensor(i, c) == Tn("closure", i, c, 0)
BankTensor(i, c) == Tn("bank", i, c, 0)

\* ---------------------------------------------------- compiled model descriptors
\* A descriptor set is the external input of the request (CompiledModel).
\* Tuples are indexed by subgraph index + 1.
\*   device          position of device_it in the device list at construction
\*   kind            "normal" (compiled_model, no replaced_by), "funcall"
\*                   (replaced_by set) or "optout" (neither)
\*   compiled_model  whether the descriptor itself holds a compiled model
\*   scales, zerops  whether scales[cidx] / zerops[cidx] hold a tensor
\*   host_gather     host_gather.dst_idx, -1 when there is no host-side gather
\*   links           m_submodels_input_to_prev_output as a sequence sorted by key,
\*                   each <<to_sub, to_port, from_sub, from_port>>
\*   inputs_to      m_inputs_to_submodels_inputs, <<sub, port>> or NO_LINK
\*   subscribers     m_param_subscribers flattened in iteration order, <<g, sub, port>>
\*   outputs_from    m_outputs_to_submodels_outputs
NO_LINK == <<NONE, NONE>>

\* Scenario 1: two normal subgraphs linked (0,0) -> (1,0).
CfgTwoNormal ==
    [ device |-> 1,
      N |-> 2,
      kind |-> <<"normal", "normal">>,
      compiled_model |-> <<TRUE, TRUE>>,
      replaced_by |-> <<NONE, NONE>>,
      spatial |-> <<FALSE, FALSE>>,
      sparams |-> <<{}, {}>>,
      param_base |-> <<1, 2>>,
      nout |-> <<1, 1>>,
      closure |-> << <<>>, <<>> >>,
      update_required |-> << <<>>, <<>> >>,
      scales |-> << <<>>, <<>> >>,
      zerops |-> << <<>>, <<>> >>,
      host_gather |-> <<NONE, NONE>>,
      links |-> << <<1, 0, 0, 0>> >>,
      inputs_to |-> << <<0, 0>>, <<1, 1>> >>,
      subscribers |-> << >>,
      outputs_from |-> << <<1, 0>> >> ]

\* Scenario 2: a normal producer and two consecutive calls of one body.
CfgTwoCalls ==
    [ device |-> 1,
      N |-> 3,
      kind |-> <<"normal", "funcall", "funcall">>,
      compiled_model |-> <<TRUE, TRUE, FALSE>>,
      replaced_by |-> <<NONE, 1, 1>>,
      spatial |-> <<FALSE, FALSE, FALSE>>,
      sparams |-> <<{}, {}, {}>>,
      param_base |-> <<1, 2, 2>>,
      nout |-> <<1, 1, 1>>,
      closure |-> << <<>>, <<"f16", "i4">>, <<"f16", "i4">> >>,
      update_required |-> << <<>>, <<TRUE, TRUE>>, <<TRUE, TRUE>> >>,
      scales |-> << <<>>, <<FALSE, TRUE>>, <<FALSE, TRUE>> >>,
      zerops |-> << <<>>, <<FALSE, FALSE>>, <<FALSE, FALSE>> >>,
      host_gather |-> <<NONE, NONE, NONE>>,
      links |-> << <<1, 0, 0, 0>>, <<2, 0, 1, 0>> >>,
      inputs_to |-> << <<0, 0>>, <<1, 1>>, <<2, 1>> >>,
      subscribers |-> << >>,
      outputs_from |-> << <<2, 0>> >> ]

\* The same with a spatial body: input 0 comes over the link, input 1 is a
\* global input, both sliced.
CfgTwoCallsSpatial ==
    [ CfgTwoCalls EXCEPT !.spatial = <<FALSE, TRUE, FALSE>>,
                         !.sparams = <<{}, {0, 1}, {}>> ]

\* Scenario 2 with a first closure that needs no update at run time.
CfgFrozenClosure ==
    [ CfgTwoCalls EXCEPT !.update_required = << <<>>, <<FALSE, TRUE>>, <<FALSE, TRUE>> >> ]

\* One call of a body whose only closure is quantized (scales present) and
\* needs no update at run time.
CfgFrozenScaled ==
    [ device |-> 1,
      N |-> 2,
      kind |-> <<"normal", "funcall">>,
      compiled_model |-> <<TRUE, TRUE>>,
      replaced_by |-> <<NONE, 1>>,
      spatial |-> <<FALSE, FALSE>>,
      sparams |-> <<{}, {}>>,
      param_base |-> <<1, 1>>,
      nout |-> <<1, 1>>,
      closure |-> << <<>>, <<"i4">> >>,
      update_required |-> << <<>>, <<FALSE>> >>,
      scales |-> << <<>>, <<TRUE>> >>,
      zerops |-> << <<>>, <<FALSE>> >>,
      host_gather |-> <<NONE, NONE>>,
      links |-> << <<1, 0, 0, 0>> >>,
      inputs_to |-> << <<0, 0>> >>,
      subscribers |-> << >>,
      outputs_from |-> << <<1, 0>> >> ]

\* Scenario 2 with a host-side gather into closure 0 of the body's own call
\* site.
CfgHostGather ==
    [ CfgTwoCalls EXCEPT !.host_gather = <<NONE, 2, NONE>> ]

\* Two calls of one body and nothing else: the last subgraph and subgraph 0
\* call the same body.
CfgWrapCalls ==
    [ device |-> 1,
      N |-> 2,
      kind |-> <<"funcall", "funcall">>,
      compiled_model |-> <<TRUE, FALSE>>,
      replaced_by |-> <<0, 0>>,
      spatial |-> <<FALSE, FALSE>>,
      sparams |-> <<{}, {}>>,
      param_base |-> <<1, 1>>,
      nout |-> <<1, 1>>,
      closure |-> << <<"f16">>, <<"f16">> >>,
      update_required |-> << <<TRUE>>, <<TRUE>> >>,
      scales |-> << <<FALSE>>, <<FALSE>> >>,
      zerops |-> << <<FALSE>>, <<FALSE>> >>,
      host_gather |-> <<NONE, NONE>>,
      links |-> << <<1, 0, 0, 0>> >>,
      inputs_to |-> << <<0, 0>> >>,
      subscribers |-> << >>,
      outputs_from |-> << <<1, 0>> >> ]

\* Two calls of one body separated by a normal subgraph, body first.
CfgSplitCalls ==
    [ device |-> 1,
      N |-> 4,
      kind |-> <<"funcall", "normal", "funcall", "normal">>,
      compiled_model |-> <<TRUE, TRUE, FALSE, TRUE>>,
      replaced_by |-> <<0, NONE, 0, NONE>>,
      spatial |-> <<FALSE, FALSE, FALSE, FALSE>>,
      sparams |-> <<{}, {}, {}, {}>>,
      param_base |-> <<1, 1, 1, 1>>,
      nout |-> <<1, 1, 1, 1>>,
      closure |-> << <<"f16">>, <<>>, <<"f16">>, <<>> >>,
      update_required |-> << <<TRUE>>, <<>>, <<TRUE>>, <<>> >>,
      scales |-> << <<FALSE>>, <<>>, <<FALSE>>, <<>> >>,
      zerops |-> << <<FALSE>>, <<>>, <<FALSE>>, <<>> >>,
      host_gather |-> <<NONE, NONE, NONE, NONE>>,
      links |-> << <<1, 0, 0, 0>>, <<2, 0, 1, 0>>, <<3, 0, 2, 0>> >>,
      inputs_to |-> << <<0, 0>> >>,
      subscribers |-> << >>,
      outputs_from |-> << <<3, 0>>, <<0, 0>> >> ]

\* Two function bodies whose calls alternate: calls 0 and 2 of body 0, calls 1
\* and 3 of body 1.
CfgInterleaved ==
    [ device |-> 1,
      N |-> 4,
      kind |-> <<"funcall", "funcall", "funcall", "funcall">>,
      compiled_model |-> <<TRUE, TRUE, FALSE, FALSE>>,
      replaced_by |-> <<0, 1, 0, 1>>,
      spatial |-> <<FALSE, FALSE, FALSE, FALSE>>,
      sparams |-> <<{}, {}, {}, {}>>,
      param_base |-> <<1, 1, 1, 1>>,
      nout |-> <<1, 1, 1, 1>>,
      closure |-> << <<"f16">>, <<"f16">>, <<"f16">>, <<"f16">> >>,
      update_required |-> << <<TRUE>>, <<TRUE>>, <<TRUE>>, <<TRUE>> >>,
      scales |-> << <<FALSE>>, <<FALSE>>, <<FALSE>>, <<FALSE>> >>,
      zerops |-> << <<FALSE>>, <<FALSE>>, <<FALSE>>, <<FALSE>> >>,
      host_gather |-> <<NONE, NONE, NONE, NONE>>,
      links |-> << <<1, 0, 0, 0>>, <<2, 0, 1, 0>>, <<3, 0, 2, 0>> >>,
      inputs_to |-> << <<0, 0>> >>,
      subscribers |-> << >>,
      outputs_from |-> << <<3, 0>> >> ]

\* Two normal subgraphs; global input 0 feeds two ports of subgraph 0, the
\* second as a subscriber.
CfgSharedInput ==
    [ CfgTwoNormal EXCEPT !.param_base = <<2, 2>>,
                          !.subscribers = << <<0, 0, 1>> >> ]

\* Two normal subgraphs around an optimized-out one.
CfgOptOut ==
    [ device |-> 1,
      N |-> 3,
      kind |-> <<"normal", "optout", "normal">>,
      compiled_model |-> <<TRUE, FALSE, TRUE>>,
      replaced_by |-> <<NONE, NONE, NONE>>,
      spatial |-> <<FALSE, FALSE, FALSE>>,
      sparams |-> <<{}, {}, {}>>,
      param_base |-> <<1, 0, 1>>,
      nout |-> <<1, 0, 1>>,
      closure |-> << <<>>, <<>>, <<>> >>,
      update_required |-> << <<>>, <<>>, <<>> >>,
      scales |-> << <<>>, <<>>, <<>> >>,
      zerops |-> << <<>>, <<>>, <<>> >>,
      host_gather |-> <<NONE, NONE, NONE>>,
      links |-> << <<2, 0, 0, 0>> >>,
      inputs_to |-> << <<0, 0>> >>,
      subscribers |-> << >>,
      outputs_from |-> << <<2, 0>>, <<0, 0>> >> ]

\* A link that should have been erased: its producer is optimized out, its
\* consumer is a normal subgraph.
CfgDeadProducer ==
    [ device |-> 1,
      N |-> 2,
      kind |-> <<"optout", "normal">>,
      compiled_model |-> <<FALSE, TRUE>>,
      replaced_by |-> <<NONE, NONE>>,
      spatial |-> <<FALSE, FALSE>>,
      sparams |-> <<{}, {}>>,
      param_base |-> <<0, 1>>,
      nout |-> <<0, 1>>,
      closure |-> << <<>>, <<>> >>,
      update_required |-> << <<>>, <<>> >>,
      scales |-> << <<>>, <<>> >>,
      zerops |-> << <<>>, <<>> >>,
      host_gather |-> <<NONE, NONE>>,
      links |-> << <<1, 0, 0, 0>> >>,
      inputs_to |-> << >>,
      subscribers |-> << >>,
      outputs_from |-> << <<1, 0>> >> ]

\* The same link with a function call as the consumer.
CfgDeadProducerToCall ==
    [ CfgDeadProducer EXCEPT !.kind = <<"optout", "funcall">>,
                             !.replaced_by = <<NONE, 1>> ]

\* A link whose consumer is optimized out, from a normal producer.
CfgDeadConsumer ==
    [ CfgOptOut EXCEPT !.links = << <<1, 0, 0, 0>>, <<2, 0, 0, 0>> >> ]

\* A link whose consumer is optimized out, from a function call.
CfgCallToDeadConsumer ==
    [ device |-> 1,
      N |-> 2,
      kind |-> <<"funcall", "optout">>,
      compiled_model |-> <<TRUE, FALSE>>,
      replaced_by |-> <<0, NONE>>,
      spatial |-> <<FALSE, FALSE>>,
      sparams |-> <<{}, {}>>,
      param_base |-> <<1, 0>>,
      nout |-> <<1, 0>>,
      closure |-> << <<>>, <<>> >>,
      update_required |-> << <<>>, <<>> >>,
      scales |-> << <<>>, <<>> >>,
      zerops |-> << <<>>, <<>> >>,
      host_gather |-> <<NONE, NONE>>,
      links |-> << <<1, 0, 0, 0>> >>,
      inputs_to |-> << <<0, 0>> >>,
      subscribers |-> << >>,
      outputs_from |-> << <<0, 0>> >> ]

\* A link between two optimized-out subgraphs.
CfgDeadBoth ==
    [ CfgOptOut EXCEPT !.N = 4,
                       !.kind = <<"normal", "optout", "normal", "optout">>,
                       !.compiled_model = <<TRUE, FALSE, TRUE, FALSE>>,
                       !.replaced_by = <<NONE, NONE, NONE, NONE>>,
                       !.spatial = <<FALSE, FALSE, FALSE, FALSE>>,
                       !.sparams = <<{}, {}, {}, {}>>,
                       !.param_base = <<1, 0, 1, 0>>,
                       !.nout = <<1, 0, 1, 0>>,
                       !.closure = << <<>>, <<>>, <<>>, <<>> >>,
                       !.update_required = << <<>>, <<>>, <<>>, <<>> >>,
                       !.scales = << <<>>, <<>>, <<>>, <<>> >>,
                       !.zerops = << <<>>, <<>>, <<>>, <<>> >>,
                       !.host_gather = <<NONE, NONE, NONE, NONE>>,
                       !.links = << <<2, 0, 0, 0>>, <<3, 0, 1, 0>> >> ]

Scenarios == {CfgTwoNormal, CfgTwoCalls, CfgTwoCallsSpatial, CfgSplitCalls, CfgOptOut,
              CfgFrozenClosure, CfgFrozenScaled, CfgWrapCalls, CfgHostGather,
              CfgInterleaved, CfgSharedInput,
              CfgDeadProducer, CfgDeadProducerToCall, CfgDeadConsumer,
              CfgCallToDeadConsumer, CfgDeadBoth}

\* The device every body was compiled for when the request is created: the
\* first of the list, or the last one (the CPU) after failovers at compile time.
Configs == {[c EXCEPT !.device = d] : c \in Scenarios, d \in {1, NumDevices}}

\* Tile structure of the spatial bodies: range = nway * nway_iters + tail_size.
Nway == 2
NwayIters == 2
TailSize == 1
Range == Nway * NwayIters + TailSize

\* Element type of every closure input port of a compiled body.
PortType == "f16"

\* ---------------------------------------------------------------- state
VARIABLES
    cfg,                    \* the descriptor set (m_npuw_model), fixed per behaviour
    m_use_function_pipelining,
    device_it,              \* per descriptor: position in the device list, NumDevices + 1 = end()
    rq,                     \* live subrequest handles: id -> [body, in, out, fill, nset, nunpack1]
    nh,                     \* number of handles created so far
    m_subrequests,          \* idx -> handle id or NULL
    m_funcall_pipeline,     \* idx -> [subrequest, next]
    m_funcall_heads,
    m_funcall_result,       \* LinkFrom -> tensor
    m_port_to_tensor,       \* [inputs: g -> tensor, outputs: g -> tensor]
    m_subrequests_gio,      \* idx -> [global_params, global_results] (sets of <<key, value>>)
    m_subrequest_devices,   \* idx -> device recorded when the handle was created
    m_spatial_io,           \* idx -> [inputs, outputs, input_tails, output_tails]
    m_now_idx,              \* subgraph the step loop is at, NONE outside infer()
    m_run_iter,             \* completed inferences
    pc,                     \* position of the caller's thread
    failover,               \* out-parameter of run_subrequest_for_success
    next_prepared,          \* local of run_subrequest_for_success
    error_msg,              \* message of the exception that left the request
    helper,                 \* the std::async task of unsafe_during: "none", "pending", "done"
    spos,                   \* position of the spatial loop: tile index, NONE outside
    obs,                    \* observations of the current run_subrequest_for_success
    host_gather_obs,        \* per inference: call sites gathered, call sites unpacked early
    sp,                     \* the spatial loop of unsafe_infer at element level
    t4                      \* a 4-bit tensor under twrite_4b / tread_4b

vars == << cfg, m_use_function_pipelining, device_it, rq, nh, m_subrequests,
           m_funcall_pipeline, m_funcall_heads, m_funcall_result, m_port_to_tensor,
           m_subrequests_gio, m_subrequest_devices, m_spatial_io, m_now_idx, m_run_iter,
           pc, failover, next_prepared, error_msg, helper, spos, obs, host_gather_obs,
           sp, t4 >>

\* The variables of the request proper.
request_vars == << cfg, m_use_function_pipelining, device_it, rq, nh, m_subrequests,
                   m_funcall_pipeline, m_funcall_heads, m_funcall_result, m_port_to_tensor,
                   m_subrequests_gio, m_subrequest_devices, m_spatial_io, m_now_idx,
                   m_run_iter, pc, failover, next_prepared, error_msg, helper, spos, obs,
                   host_gather_obs >>

\* ---------------------------------------------------------------- descriptors
Subgraphs == 0 .. (cfg.N - 1)
HasReplacedBy(i) == cfg.kind[i + 1] = "funcall"
IsOptimizedOut(i) == ~cfg.compiled_model[i + 1] /\ ~HasReplacedBy(i)
ParamBase(i) == cfg.param_base[i + 1]
NumClosures(i) == Len(cfg.closure[i + 1])
NumOutputs(i) == cfg.nout[i + 1]
NumInputs(i) == ParamBase(i) + NumClosures(i)
IsSpatial(r) == cfg.spatial[r + 1]
UpdateRequired(i, c) == cfg.update_required[i + 1][c + 1]

\* replaced_by.value_or(idx)
real(idx) == IF HasReplacedBy(idx) THEN cfg.replaced_by[idx + 1] ELSE idx

\* IBaseInferRequest::next: the subgraph to prepare after idx_base - 1, wrapping to 0.
next(idx_base) == idx_base % cfg.N

\* Element type of a tensor.
TensorType(t) ==
    IF t[1] \in {"closure", "bank"} THEN cfg.closure[t[2] + 1][t[3] + 1] ELSE PortType

\* Shape of output port o of the compiled body r, as <<rows, extent along
\* out_dim>>; a body handles Nway elements along out_dim per execution.
PortShape(r, o) == <<o + 1, Nway>>

\* A result shape that keeps the extent of the body's port.
ResultShape_NoPromotion(i, o) == PortShape(real(i), o)

\* Shape of the tensor the constructor allocates for output o of call site i.
ResultShape(i, o) ==
    LET shape == PortShape(real(i), o) IN
    IF IsSpatial(real(i)) THEN [shape EXCEPT ![2] = Range] ELSE shape

FuncallTensor(i, o) == Tn("funcall_result", i, o, ResultShape(i, o))

\* Device names are their positions in the device list; NoDevice is the empty
\* string a slot of m_subrequest_devices holds before it is assigned.
NoDevice == 0

\* ---------------------------------------------------------------- handles
NewHandle(h, r) ==
    [ body |-> r,
      in |-> [p \in 0 .. (NumInputs(r) - 1) |-> OwnIn(h, p)],
      out |-> [p \in 0 .. (NumOutputs(r) - 1) |-> OwnOut(h, p)],
      fill |-> [p \in 0 .. (NumInputs(r) - 1) |-> NoTensor],
      nset |-> [p \in 0 .. (NumInputs(r) - 1) |-> 0],
      nunpack1 |-> [p \in 0 .. (NumInputs(r) - 1) |-> 0] ]

\* Input port p of body r takes a closure that needs no update at run time.
FrozenPort(r, p) ==
    \E i \in Subgraphs :
        /\ HasReplacedBy(i) /\ real(i) = r
        /\ \E c \in 0 .. (NumClosures(i) - 1) :
               ~UpdateRequired(i, c) /\ ParamBase(i) + c = p

\* The request's mutable state as one record, threaded through the helpers.
\*   rq[h].nset[p]  set_tensor calls so far on input p of handle h, counted for
\*             the ports of closures that need no update
\*   rq[h].nunpack1[p]  unpack1 calls so far into input p of handle h, counted
\*             for the ports of closures that need no update
\*   gathered  call sites whose host-side gather ran in this inference
\*   early     call sites whose closures last went into a handle before their
\*             gather of this inference
\*   touched   handles mutated by set_tensor / copy / unpack
\*   sio_acc   SpatialIO entries <<real_idx, "inputs"|"outputs", port>> accessed
\*   written   tensors whose memory was written by copy / unpack
\*   events    "recreate" / "connect", in the order they happened
\*   fault     a null handle was dereferenced
\*   dit       the device iterators of the descriptors
\*   thrown    an exception left the helper; thrown_at: the subgraphs it names
Cur ==
    [ rq |-> rq, nh |-> nh, subs |-> m_subrequests, dit |-> device_it,
      gathered |-> host_gather_obs.gathered, early |-> host_gather_obs.early,
      resv |-> [i \in Subgraphs |-> m_funcall_pipeline[i].subrequest],
      devs |-> m_subrequest_devices, sio |-> m_spatial_io,
      touched |-> {}, sio_acc |-> {}, written |-> {}, events |-> << >>,
      binds |-> << >>,
      fault |-> FALSE, thrown |-> FALSE, thrown_at |-> {} ]

\* ISyncInferRequest::set_tensor on an input port.
SetInput(R, h, p, t) ==
    IF h = NULL THEN [R EXCEPT !.fault = TRUE]
    ELSE [R EXCEPT !.rq[h].in[p] = t, !.rq[h].fill[p] = t, !.touched = @ \cup {h},
                   !.rq[h].nset[p] = IF FrozenPort(R.rq[h].body, p) THEN @ + 1 ELSE @]

\* ISyncInferRequest::set_tensor on an output port.
SetOutput(R, h, p, t) ==
    IF h = NULL THEN [R EXCEPT !.fault = TRUE]
    ELSE [R EXCEPT !.rq[h].out[p] = t, !.touched = @ \cup {h}]

\* src->copy_to(h.get_tensor(p)) and the unpack kernels: the memory of the
\* tensor bound to input p is overwritten with the data of src.
WriteInput(R, h, p, src) ==
    IF h = NULL THEN [R EXCEPT !.fault = TRUE]
    ELSE [R EXCEPT !.rq[h].fill[p] = src, !.touched = @ \cup {h},
                   !.written = @ \cup {R.rq[h].in[p]}]

SetSpatialInput(R, r, p, t) ==
    [R EXCEPT !.sio[r].inputs[p] = t, !.sio_acc = @ \cup {<<r, "inputs", p>>}]

SetSpatialOutput(R, r, p, t) ==
    [R EXCEPT !.sio[r].outputs[p] = t, !.sio_acc = @ \cup {<<r, "outputs", p>>}]

\* IBaseInferRequest::needs_copy: every device but the CPU wants its I/O copied.
\* The CPU is the last device of the fallback list.
needs_copy(R, idx) == R.devs[real(idx)] # NumDevices

\* ---------------------------------------------------------------- wiring
\* A wiring that reads a function call's result from the output port of the
\* body's handle.
ConnectLink_FromBodyPort(R, l) ==
    IF HasReplacedBy(l[3]) /\ ~HasReplacedBy(l[1])
    THEN SetInput(R, R.subs[l[1]], l[2], R.rq[R.subs[real(l[3])]].out[l[4]])
    ELSE IF ~HasReplacedBy(l[3]) /\ ~HasReplacedBy(l[1]) /\ R.subs[l[1]] # NULL /\ R.subs[l[3]] # NULL
    THEN SetInput(R, R.subs[l[1]], l[2], R.rq[R.subs[l[3]]].out[l[4]])
    ELSE R

\* A wiring that leaves the links between two normal subgraphs alone.
ConnectLink_FuncallOnly(R, l) ==
    IF HasReplacedBy(l[3]) /\ ~HasReplacedBy(l[1])
    THEN SetInput(R, R.subs[l[1]], l[2], m_funcall_result[<<l[3], l[4]>>])
    ELSE R

\* A wiring that exchanges the two tensors of a link between normal subgraphs:
\* the producer's output port receives the tensor the consumer had before.
ConnectLink_Exchange(R, l) ==
    IF HasReplacedBy(l[3]) /\ ~HasReplacedBy(l[1])
    THEN SetInput(R, R.subs[l[1]], l[2], m_funcall_result[<<l[3], l[4]>>])
    ELSE IF ~HasReplacedBy(l[3]) /\ ~HasReplacedBy(l[1]) /\ R.subs[l[1]] # NULL /\ R.subs[l[3]] # NULL
    THEN SetOutput(SetInput(R, R.subs[l[1]], l[2], R.rq[R.subs[l[3]]].out[l[4]]),
                   R.subs[l[3]], l[4], R.rq[R.subs[l[1]]].in[l[2]])
    ELSE R

\* One entry of m_submodels_input_to_prev_output, as connect_subrequests treats it.
ConnectLink(R, l) ==
    LET to == l[1]  to_port == l[2]  from == l[3]  from_port == l[4] IN
    IF HasReplacedBy(from) /\ HasReplacedBy(to) THEN R
    ELSE IF HasReplacedBy(from) /\ ~HasReplacedBy(to)
        THEN SetInput(R, R.subs[to], to_port, m_funcall_result[<<from, from_port>>])
    ELSE IF ~HasReplacedBy(from) /\ HasReplacedBy(to) THEN R
    ELSE IF R.subs[from] = NULL /\ R.subs[to] # NULL
        THEN [R EXCEPT !.thrown = TRUE, !.thrown_at = {from, to}]
    ELSE IF R.subs[to] = NULL THEN R
    ELSE SetInput(R, R.subs[to], to_port, R.rq[R.subs[from]].out[from_port])

RECURSIVE ConnectFrom(_, _)
ConnectFrom(R, k) ==
    IF k > Len(cfg.links) \/ R.thrown \/ R.fault THEN R
    ELSE ConnectFrom(ConnectLink(R, cfg.links[k]), k + 1)

connect_subrequests(R) == ConnectFrom([R EXCEPT !.events = Append(@, "connect")], 1)

\* ---------------------------------------------------------------- binding
\* The keys of a std::map held as a set of <<key, value>>, and the value at a key.
Keys(m) == {e[1] : e \in m}
At(m, k) == (CHOOSE e \in m : e[1] = k)[2]
Put(m, k, v) == {e \in m : e[1] # k} \cup {<<k, v>>}
MinOf(S) == CHOOSE x \in S : \A y \in S : x <= y

\* A binding that always works on the primary handle.
BindTarget_Primary(R, idx) == R.subs[real(idx)]

\* The subrequest bind_global_parameters works on (the lambda subr).
BindTarget(R, idx) ==
    IF m_now_idx # NONE /\ real(idx) = real(m_now_idx) /\ m_use_function_pipelining
    THEN R.resv[real(idx)]
    ELSE R.subs[real(idx)]

is_spatial_param(idx, sub_in_idx) ==
    IsSpatial(real(idx)) /\ sub_in_idx \in cfg.sparams[real(idx) + 1]

\* One entry of iodesc.global_params; copies of the copy_list write the same
\* ports after the loop, in any order.
BindParam(R, idx, param_idx, sub_in_idx) ==
    LET subr == BindTarget(R, idx) IN
    IF ~is_spatial_param(idx, sub_in_idx)
    THEN IF needs_copy(R, idx)
         THEN WriteInput(R, subr, sub_in_idx, m_port_to_tensor.inputs[param_idx])
         ELSE SetInput(R, subr, sub_in_idx, m_port_to_tensor.inputs[param_idx])
    ELSE SetSpatialInput(R, real(idx), sub_in_idx, m_port_to_tensor.inputs[param_idx])

RECURSIVE BindParams(_, _, _)
BindParams(R, idx, todo) ==
    IF todo = {} THEN R
    ELSE LET g == MinOf(todo) IN
         BindParams(BindParam(R, idx, g, At(m_subrequests_gio[idx].global_params, g)),
                    idx, todo \ {g})

\* The host-side gather at the end of bind_global_parameters: the lookup port
\* is taken from the compiled model of descriptor idx itself.
HasGather(idx) == cfg.host_gather[idx + 1] # NONE
HostGather(R, idx) ==
    IF ~HasGather(idx) THEN R
    ELSE IF ~cfg.compiled_model[idx + 1] THEN [R EXCEPT !.fault = TRUE]
    ELSE [R EXCEPT !.gathered = @ \cup {idx}]

bind_global_parameters(R, idx) ==
    [HostGather(BindParams(R, idx, Keys(m_subrequests_gio[idx].global_params)), idx)
        EXCEPT !.binds = Append(@, idx)]

\* A binding of results that leaves the handle's own output tensors in place.
bind_global_results_Skip(R, idx) == R

RECURSIVE BindResults(_, _, _)
BindResults(R, idx, todo) ==
    IF todo = {} THEN R
    ELSE LET g == MinOf(todo) IN
         BindResults(SetOutput(R, R.subs[idx], At(m_subrequests_gio[idx].global_results, g),
                               m_port_to_tensor.outputs[g]),
                     idx, todo \ {g})

bind_global_results(R, idx) ==
    IF HasReplacedBy(idx) THEN R
    ELSE BindResults(R, idx, Keys(m_subrequests_gio[idx].global_results))

\* ---------------------------------------------------------------- closures
\* A choice that asks the device recorded in the call site's own slot, not
\* in the body's, whether a copy is needed.
ClosureAction_OwnSlotDevice(R, idx, h, cidx) ==
    IF cfg.closure[idx + 1][cidx + 1] # TensorType(R.rq[h].in[ParamBase(idx) + cidx])
    THEN "unpack"
    ELSE IF UpdateRequired(idx, cidx)
         THEN IF R.devs[idx] # NumDevices THEN "copy" ELSE "set"
         ELSE "skip"

\* A choice that rebinds every closure of matching type on every call,
\* whether it needs an update or not.
ClosureAction_AlwaysUpdate(R, idx, h, cidx) ==
    IF cfg.closure[idx + 1][cidx + 1] # TensorType(R.rq[h].in[ParamBase(idx) + cidx])
    THEN "unpack"
    ELSE IF needs_copy(R, idx) THEN "copy" ELSE "set"

\* A choice that looks at update_required before it compares the types.
ClosureAction_UpdateFirst(R, idx, h, cidx) ==
    IF UpdateRequired(idx, cidx)
    THEN IF needs_copy(R, idx) THEN "copy" ELSE "set"
    ELSE IF cfg.closure[idx + 1][cidx + 1] # TensorType(R.rq[h].in[ParamBase(idx) + cidx])
         THEN "unpack"
         ELSE "skip"

\* What unpack_closure does with closure cidx of call site idx on handle h:
\* "unpack", "copy", "set" or "skip".
ClosureAction(R, idx, h, cidx) ==
    LET clparam == R.rq[h].in[ParamBase(idx) + cidx] IN
    IF cfg.closure[idx + 1][cidx + 1] # TensorType(clparam) THEN "unpack"
    ELSE IF UpdateRequired(idx, cidx)
         THEN IF needs_copy(R, idx) THEN "copy" ELSE "set"
         ELSE "skip"

\* The kernel the unpack loop picks for closure cidx.
Kernel(idx, cidx) ==
    IF cfg.scales[idx + 1][cidx + 1] /\ cfg.zerops[idx + 1][cidx + 1] THEN "unpack2"
    ELSE IF cfg.scales[idx + 1][cidx + 1] THEN "unpack1"
    ELSE "unpack"

\* A call of the kernel for closure cidx into the tensor at the port.
RunKernel(R, idx, h, cidx) ==
    LET port == ParamBase(idx) + cidx
        W == WriteInput(R, h, port, ClosureTensor(idx, cidx)) IN
    IF h # NULL /\ Kernel(idx, cidx) = "unpack1" /\ FrozenPort(R.rq[h].body, port)
    THEN [W EXCEPT !.rq[h].nunpack1[port] = @ + 1]
    ELSE W

UnpackOne(R, idx, h, cidx) ==
    LET act == ClosureAction(R, idx, h, cidx)
        port == ParamBase(idx) + cidx IN
    CASE act = "set" -> SetInput(R, h, port, ClosureTensor(idx, cidx))
      [] act = "copy" -> WriteInput(R, h, port, ClosureTensor(idx, cidx))
      [] act = "unpack" -> RunKernel(R, idx, h, cidx)
      [] OTHER -> R

RECURSIVE UnpackFrom(_, _, _, _)
UnpackFrom(R, idx, h, cidx) ==
    IF cidx >= NumClosures(idx) THEN R
    ELSE UnpackFrom(UnpackOne(R, idx, h, cidx), idx, h, cidx + 1)

\* Whether the closures of idx go into a handle before or after the gather.
NoteUnpack(R, idx) ==
    IF ~HasGather(idx) THEN R
    ELSE [R EXCEPT !.early = IF idx \in R.gathered THEN @ \ {idx} ELSE @ \cup {idx}]

unpack_closure(R, idx, h) ==
    IF h = NULL THEN [R EXCEPT !.fault = NumClosures(idx) > 0 \/ @]
    ELSE UnpackFrom(NoteUnpack(R, idx), idx, h, 0)

\* ---------------------------------------------------------------- prologue
\* Step 1 of function_prologue for body input i.
PrologueParam(R, idx, i) ==
    LET hits == {k \in 1 .. Len(cfg.links) : cfg.links[k][1] = idx /\ cfg.links[k][2] = i} IN
    IF hits = {} THEN R
    ELSE LET l == cfg.links[CHOOSE k \in hits : TRUE]
             prod_idx == l[3]
             prod_port == l[4] IN
         IF ~HasReplacedBy(prod_idx)
         THEN IF R.subs[prod_idx] = NULL THEN [R EXCEPT !.fault = TRUE]
              ELSE LET i_tensor == R.rq[R.subs[prod_idx]].out[prod_port] IN
                   IF ~IsSpatial(real(idx))
                   THEN SetInput(R, R.subs[real(idx)], i, i_tensor)
                   ELSE SetSpatialInput(R, real(idx), i, i_tensor)
         ELSE LET i_tensor == m_funcall_result[<<prod_idx, prod_port>>] IN
              IF ~IsSpatial(real(idx))
              THEN SetInput(R, R.subs[real(idx)], i, i_tensor)
              ELSE SetSpatialInput(R, real(idx), i, i_tensor)

RECURSIVE PrologueParams(_, _, _)
PrologueParams(R, idx, i) ==
    IF i >= ParamBase(real(idx)) THEN R
    ELSE PrologueParams(PrologueParam(R, idx, i), idx, i + 1)

\* Step 3 of function_prologue for body output i.
RECURSIVE PrologueResults(_, _, _)
PrologueResults(R, idx, i) ==
    IF i >= NumOutputs(real(idx)) THEN R
    ELSE LET o_tensor == m_funcall_result[<<idx, i>>] IN
         PrologueResults(IF ~IsSpatial(real(idx))
                         THEN SetOutput(R, R.subs[real(idx)], i, o_tensor)
                         ELSE SetSpatialOutput(R, real(idx), i, o_tensor),
                         idx, i + 1)

function_prologue(R, idx) ==
    LET R1 == PrologueParams(R, idx, 0)
        R2 == IF ~m_use_function_pipelining
              THEN unpack_closure(R1, idx, R1.subs[real(idx)])
              ELSE R1 IN
    PrologueResults(R2, idx, 0)

\* ---------------------------------------------------------------- recreation
\* IBaseInferRequest::create_infer_requests: fresh handles of the body's
\* compiled model; the ids of the n handles are R.nh + 1 .. R.nh + n.
create_infer_requests(R, idx, n) ==
    [R EXCEPT !.nh = @ + n,
              !.rq = [h \in DOMAIN R.rq \cup ((R.nh + 1) .. (R.nh + n)) |->
                         IF h \in DOMAIN R.rq THEN R.rq[h] ELSE NewHandle(h, real(idx))]]

\* Handles no slot refers to any more are destroyed.
Release(R) ==
    LET live == {R.subs[i] : i \in Subgraphs} \cup {R.resv[i] : i \in Subgraphs} IN
    [R EXCEPT !.rq = [h \in DOMAIN R.rq \cap live |-> R.rq[h]]]

\* *device_it: past the end of the list the read is undefined: it yields some
\* string ub, or (ub = NONE) the process dies.
Deref(it, ub) == IF it \in 1 .. NumDevices THEN it ELSE ub

\* A recreation that puts the new handles in the slot of the call site.
recreate_subrequests_OwnSlot(R, idx, ub) ==
    LET n == IF m_use_function_pipelining THEN 2 ELSE 1
        R1 == create_infer_requests(R, idx, n)
        R2 == [R1 EXCEPT !.subs[idx] = R.nh + 1, !.events = Append(@, "recreate")]
        R3 == IF HasReplacedBy(idx) /\ m_use_function_pipelining
              THEN [R2 EXCEPT !.resv[idx] = R.nh + 2]
              ELSE R2
        R4 == connect_subrequests(Release(R3)) IN
    IF R4.thrown THEN R4
    ELSE IF Deref(R.dit[idx], ub) = NONE THEN [R4 EXCEPT !.fault = TRUE]
    ELSE [R4 EXCEPT !.devs[idx] = Deref(R.dit[idx], ub)]

\* A recreation that leaves the recorded device of the slot as it was.
recreate_subrequests_KeepDevice(R, idx, ub) ==
    LET real_idx == real(idx)
        n == IF m_use_function_pipelining THEN 2 ELSE 1
        R1 == create_infer_requests(R, idx, n)
        R2 == [R1 EXCEPT !.subs[real_idx] = R.nh + 1, !.events = Append(@, "recreate")]
        R3 == IF HasReplacedBy(idx) /\ m_use_function_pipelining
              THEN [R2 EXCEPT !.resv[real_idx] = R.nh + 2]
              ELSE R2 IN
    connect_subrequests(Release(R3))

recreate_subrequests(R, idx, ub) ==
    LET real_idx == real(idx)
        n == IF m_use_function_pipelining THEN 2 ELSE 1
        R1 == create_infer_requests(R, idx, n)
        R2 == [R1 EXCEPT !.subs[real_idx] = R.nh + 1, !.events = Append(@, "recreate")]
        R3 == IF HasReplacedBy(idx) /\ m_use_function_pipelining
              THEN [R2 EXCEPT !.resv[real_idx] = R.nh + 2]
              ELSE R2
        R4 == connect_subrequests(Release(R3)) IN
    IF R4.thrown THEN R4
    ELSE IF Deref(R.dit[idx], ub) = NONE THEN [R4 EXCEPT !.fault = TRUE]
    ELSE [R4 EXCEPT !.devs[idx] = Deref(R.dit[idx], ub)]

\* ---------------------------------------------------------------- construction
EmptyMap == [x \in {} |-> NoTensor]

\* The request before the constructor's first loop.
Blank ==
    [ rq |-> EmptyMap, nh |-> 0,
      gathered |-> {}, early |-> {},
      subs |-> [i \in Subgraphs |-> NULL],
      dit |-> [i \in Subgraphs |-> cfg.device],
      resv |-> [i \in Subgraphs |-> NULL],
      devs |-> [i \in Subgraphs |-> NoDevice],
      sio |-> [i \in Subgraphs |-> [inputs |-> EmptyMap, input_tails |-> EmptyMap,
                                    outputs |-> EmptyMap, output_tails |-> EmptyMap]],
      touched |-> {}, sio_acc |-> {}, written |-> {}, events |-> << >>,
      binds |-> << >>,
      fault |-> FALSE, thrown |-> FALSE, thrown_at |-> {} ]

\* The spatial IO placeholders of body real_idx (constructor, if(spatial)).
SpatialPlaceholders(real_idx) ==
    [ inputs |-> [p \in 0 .. (ParamBase(real_idx) - 1) |-> NoTensor],
      input_tails |-> [p \in 0 .. (ParamBase(real_idx) - 1) |->
                          IF TailSize > 0 /\ p \in cfg.sparams[real_idx + 1]
                          THEN Tn("input_tail", real_idx, p, 0) ELSE NoTensor],
      outputs |-> [o \in 0 .. (NumOutputs(real_idx) - 1) |-> NoTensor],
      output_tails |-> [o \in 0 .. (NumOutputs(real_idx) - 1) |->
                          IF TailSize > 0
                          THEN Tn("output_tail", real_idx, o, 0) ELSE NoTensor] ]

\* The body of the constructor's first loop for subgraph i.
CreateOne(R, i) ==
    IF IsOptimizedOut(i) THEN R
    ELSE LET R1 == IF HasReplacedBy(i) /\ IsSpatial(real(i))
                   THEN [R EXCEPT !.sio[real(i)] = SpatialPlaceholders(real(i))]
                   ELSE R IN
         IF HasReplacedBy(i) /\ real(i) # i THEN R1
         ELSE LET n == IF m_use_function_pipelining THEN 2 ELSE 1
                  R2 == create_infer_requests(R1, i, n)
                  R3 == [R2 EXCEPT !.subs[i] = R1.nh + 1,
                                   !.devs[i] = R1.dit[i]] IN
              Release(IF HasReplacedBy(i) /\ m_use_function_pipelining
                      THEN [R3 EXCEPT !.resv[i] = R1.nh + 2]
                      ELSE R3)

RECURSIVE CreateFrom(_, _)
CreateFrom(R, i) ==
    IF i >= cfg.N THEN R ELSE CreateFrom(CreateOne(R, i), i + 1)

\* A result storage that keeps one tensor per body output, shared by the
\* call sites of the body.
CtorFuncallResult_PerBody ==
    [k \in UNION {{<<i, o>> : o \in 0 .. (NumOutputs(real(i)) - 1)} :
                      i \in {j \in Subgraphs : HasReplacedBy(j)}}
        |-> FuncallTensor(real(k[1]), k[2])]

\* m_funcall_result as the first loop fills it.
CtorFuncallResult ==
    [k \in UNION {{<<i, o>> : o \in 0 .. (NumOutputs(real(i)) - 1)} :
                      i \in {j \in Subgraphs : HasReplacedBy(j)}}
        |-> FuncallTensor(k[1], k[2])]

\* A pipeline loop that accumulates per call site, not per function body.
PipelineOne_PerCallSite(acc, i) ==
    IF ~HasReplacedBy(i) THEN acc
    ELSE IF acc.prevs[i] = NONE
         THEN [acc EXCEPT !.heads = Append(@, i), !.prevs[i] = i]
         ELSE [acc EXCEPT !.nxt[acc.prevs[i]] = i, !.prevs[i] = i]

\* The funcall pipeline loop: acc = [heads, nxt, prevs].
PipelineOne(acc, i) ==
    IF ~HasReplacedBy(i) THEN acc
    ELSE LET real_id == real(i) IN
         IF acc.prevs[real_id] = NONE
         THEN [acc EXCEPT !.heads = Append(@, i), !.prevs[real_id] = i]
         ELSE [acc EXCEPT !.nxt[acc.prevs[real_id]] = i, !.prevs[real_id] = i]

RECURSIVE PipelineFrom(_, _)
PipelineFrom(acc, i) ==
    IF i >= cfg.N THEN acc ELSE PipelineFrom(PipelineOne(acc, i), i + 1)

CtorPipeline ==
    LET none == [heads |-> << >>, nxt |-> [i \in Subgraphs |-> NONE],
                 prevs |-> [i \in Subgraphs |-> NONE]] IN
    IF m_use_function_pipelining THEN PipelineFrom(none, 0) ELSE none

GlobalInputs == 0 .. (Len(cfg.inputs_to) - 1)
GlobalOutputs == 0 .. (Len(cfg.outputs_from) - 1)

CtorPortToTensor ==
    [ inputs |-> [g \in GlobalInputs |-> InputTensor(g)],
      outputs |-> [g \in GlobalOutputs |->
                      IF cfg.outputs_from[g + 1] \in DOMAIN m_funcall_result
                      THEN m_funcall_result[cfg.outputs_from[g + 1]]
                      ELSE OutputTensor(g)] ]

\* Parameters, stage 1 and stage 2, and Results, for subgraph sub.
RECURSIVE Stage1(_, _, _)
Stage1(m, sub, i) ==
    IF i >= Len(cfg.inputs_to) THEN m
    ELSE LET to_submodel == cfg.inputs_to[i + 1] IN
         Stage1(IF to_submodel # NO_LINK /\ to_submodel[1] = sub
                THEN Put(m, i, to_submodel[2]) ELSE m, sub, i + 1)

RECURSIVE Stage2(_, _, _)
Stage2(m, sub, k) ==
    IF k > Len(cfg.subscribers) THEN m
    ELSE LET s == cfg.subscribers[k] IN
         Stage2(IF s[2] = sub THEN Put(m, s[1], s[3]) ELSE m, sub, k + 1)

RECURSIVE Results(_, _, _)
Results(m, sub, i) ==
    IF i >= Len(cfg.outputs_from) THEN m
    ELSE Results(IF cfg.outputs_from[i + 1][1] = sub
                 THEN Put(m, i, cfg.outputs_from[i + 1][2]) ELSE m, sub, i + 1)

CtorGio ==
    [sub \in Subgraphs |->
        [ global_params |-> Stage2(Stage1({}, sub, 0), sub, 1),
          global_results |-> Results({}, sub, 0) ]]

\* The last loop of the constructor: closures that need no update are set once.
RECURSIVE PresetClosures(_, _, _)
PresetClosures(R, i, cidx) ==
    IF cidx >= NumClosures(i) THEN R
    ELSE PresetClosures(IF ~UpdateRequired(i, cidx)
                        THEN SetInput(R, R.subs[real(i)], ParamBase(i) + cidx,
                                      BankTensor(i, cidx))
                        ELSE R, i, cidx + 1)

RECURSIVE PresetFrom(_, _)
PresetFrom(R, i) ==
    IF i >= cfg.N THEN R
    ELSE PresetFrom(IF ~cfg.compiled_model[i + 1] \/ ~HasReplacedBy(i) THEN R
                    ELSE PresetClosures(R, i, 0), i + 1)

\* The request after JustInferRequest::JustInferRequest.
Constructed == PresetFrom(connect_subrequests(CreateFrom(Blank, 0)), 0)

\* ---------------------------------------------------------------- execution
\* CompiledModel::compile_for_success(id): tries the devices from the cursor on;
\* t is the first one that compiles the body, NumDevices + 1 if none does.
CompileOutcomes(dit, id) == dit[id] .. (NumDevices + 1)
compile_for_success(dit, id, t) ==
    [ ok |-> t <= NumDevices,
      dit |-> IF t <= NumDevices THEN [dit EXCEPT ![id] = t] ELSE dit ]

valid_subrequest(idx) == m_subrequests[real(idx)] # NULL

\* The branch unsafe_run_this_prep_next takes for idx.
Mode(idx) ==
    LET next_idx == next(idx + 1) IN
    IF HasReplacedBy(idx)
    THEN IF real(idx) = real(next_idx)
         THEN IF m_use_function_pipelining
              THEN IF m_funcall_pipeline[idx].next = next_idx
                   THEN "during_same"
                   ELSE "throws"      \* bad_optional_access or a failed NPUW_ASSERT
              ELSE "infer_bind"
         ELSE IF next_idx = 0 THEN "infer" ELSE "during_other"
    ELSE IF next_idx = 0 THEN "infer" ELSE "during_normal"

\* A task that binds the successor's global parameters on every attempt.
PrepTask_EveryAttempt(R, idx, np) ==
    LET next_idx == next(idx + 1)
        real_idx == real(idx)
        bound == bind_global_parameters(R, next_idx) IN
    CASE Mode(idx) = "during_same" ->
            [R |-> unpack_closure(bound, next_idx, bound.resv[real_idx]), np |-> np]
      [] Mode(idx) = "during_other" ->
            [R |-> IF m_use_function_pipelining /\ m_funcall_pipeline[idx].next # NONE
                   THEN unpack_closure(bound, m_funcall_pipeline[idx].next,
                                       bound.resv[real_idx])
                   ELSE bound,
             np |-> TRUE]
      [] OTHER -> [R |-> bound, np |-> TRUE]

\* The task f handed to unsafe_during; np is next_prepared.
PrepTask(R, idx, np) ==
    LET next_idx == next(idx + 1)
        real_idx == real(idx)
        bound == IF ~np THEN bind_global_parameters(R, next_idx) ELSE R IN
    CASE Mode(idx) = "during_same" ->
            LET R1 == bind_global_parameters(R, next_idx) IN
            [R |-> unpack_closure(R1, next_idx, R1.resv[real_idx]), np |-> np]
      [] Mode(idx) = "during_other" ->
            [R |-> IF m_use_function_pipelining /\ m_funcall_pipeline[idx].next # NONE
                   THEN unpack_closure(bound, m_funcall_pipeline[idx].next,
                                       bound.resv[real_idx])
                   ELSE bound,
             np |-> TRUE]
      [] OTHER -> [R |-> bound, np |-> TRUE]

\* unsafe_infer, spatial: the views of tile k bound to the handle.
RECURSIVE TileInputs(_, _, _, _)
TileInputs(R, real_idx, k, todo) ==
    IF todo = {} THEN R
    ELSE LET p == MinOf(todo)
             full == R.sio[real_idx].inputs[p] IN
         TileInputs(IF full = NoTensor THEN [R EXCEPT !.fault = TRUE]
                    ELSE SetInput(R, R.subs[real_idx], p, Tn("view", full, k, 0)),
                    real_idx, k, todo \ {p})

RECURSIVE TileOutputs(_, _, _, _)
TileOutputs(R, real_idx, k, o) ==
    IF o >= NumOutputs(real_idx) THEN R
    ELSE LET full == R.sio[real_idx].outputs[o] IN
         TileOutputs(IF full = NoTensor THEN [R EXCEPT !.fault = TRUE]
                     ELSE SetOutput(R, R.subs[real_idx], o, Tn("view", full, k, 0)),
                     real_idx, k, o + 1)

\* unsafe_infer, spatial: the tail buffers bound to the handle.
RECURSIVE TailInputs(_, _, _)
TailInputs(R, real_idx, todo) ==
    IF todo = {} THEN R
    ELSE LET p == MinOf(todo) IN
         TailInputs(IF R.sio[real_idx].inputs[p] = NoTensor THEN [R EXCEPT !.fault = TRUE]
                    ELSE SetInput(R, R.subs[real_idx], p, R.sio[real_idx].input_tails[p]),
                    real_idx, todo \ {p})

RECURSIVE TailOutputs(_, _, _)
TailOutputs(R, real_idx, o) ==
    IF o >= NumOutputs(real_idx) THEN R
    ELSE TailOutputs(SetOutput(R, R.subs[real_idx], o, R.sio[real_idx].output_tails[o]),
                     real_idx, o + 1)

\* The SpatialIO entries one pass of the spatial loop accesses.
SpatialAccesses(real_idx) ==
    {<<real_idx, "inputs", p>> : p \in cfg.sparams[real_idx + 1]}
        \cup {<<real_idx, "outputs", o>> : o \in 0 .. (NumOutputs(real_idx) - 1)}

\* Positions of the spatial loop after its last tile.
Done == NwayIters + 1
Threw == NwayIters + 2
LastStep == IF TailSize > 0 THEN NwayIters ELSE NwayIters - 1

\* The tensor whose memory a tensor or a view of it addresses.
Base(t) == IF t[1] = "view" THEN t[2] ELSE t

\* The memory r->infer() writes: the tensors bound to the output ports of h.
ExecWrites(R, h) == {Base(R.rq[h].out[o]) : o \in DOMAIN R.rq[h].out}

\* The memory the copy of the output tails back into the full outputs writes.
TailCopyWrites(R, real_idx) ==
    {R.sio[real_idx].outputs[o] : o \in DOMAIN R.sio[real_idx].outputs}

\* ---------------------------------------------------------------- observations
ObsInit ==
    [ attempts |-> 0,       \* execution attempts of this run_subrequest_for_success
      fails |-> 0,          \* failed attempts
      devices |-> << >>,    \* the device of body real(idx) at each attempt
      events |-> << >>,     \* recreations and wirings since the last failed attempt
      compile_ok |-> TRUE,  \* result of the last compile_for_success
      inflight |-> NULL,    \* the handle executing, between start and completion
      exec |-> "none",      \* "none", "started", "done"
      task |-> "none",      \* the preparation task: "none", "started", "done"
      f_touched |-> {},     \* handles the preparation task mutated
      f_sio |-> {},         \* SpatialIO entries the preparation task accessed
      main_sio |-> {},      \* SpatialIO entries the spatial loop accessed
      clean |-> TRUE,       \* no execution has failed and no device was changed so far
      prepared |-> 0,       \* calls of bind_global_parameters for the successor
      injected |-> 0,       \* failures injected so far in the behaviour
      exec_written |-> {} ] \* tensors whose memory the execution of this attempt wrote

\* ------------------------------------------------- spatial loop, by element
\* unsafe_infer for a spatial body with one sliced parameter and one output,
\* followed element by element along the sliced dimension. Tensors are
\* functions from offsets to values; UNINIT is memory nobody wrote.
UNINIT == -1
SpIdle == [stage |-> "idle"]

\* util::view(src, dim, offset, len): element k of the view is element
\* offset + k of src.
view(offset, len) == [k \in 0 .. (len - 1) |-> offset + k]

\* r->infer() of a body that computes the identity: every element of the
\* bound output receives the element of the bound input at the same place.
IdentityBody(in_tensor) == in_tensor

\* The global input of the next call of the body, which the task of
\* unsafe_during registers in m_spatial_io.
NextCallInput(range) == [x \in 0 .. (range - 1) |-> 100 + x]

\* The call of unsafe_infer: m_spatial_io as function_prologue left it, with
\* the input filled with a ramp of the given step. given is that input, kept
\* for comparison; helper is "pending" when unsafe_during started the task
\* that prepares the next call of the same body, "none" when there is none.
SpatialCall(nway, nway_iters, tail_size, step, helper_state) ==
    LET range == nway * nway_iters + tail_size IN
    [ stage |-> "loop",
      spatial |-> TRUE,
      helper |-> helper_state,
      nway |-> nway, nway_iters |-> nway_iters, tail_size |-> tail_size,
      given |-> [x \in 0 .. (range - 1) |-> step * x],
      inputs |-> [x \in 0 .. (range - 1) |-> step * x],
      outputs |-> [x \in 0 .. (range - 1) |-> UNINIT],
      input_tails |-> [k \in 0 .. (nway - 1) |-> UNINIT],
      output_tails |-> [k \in 0 .. (nway - 1) |-> UNINIT],
      i |-> 0, offset |-> 0,
      written |-> {},
      runs |-> << >>,         \* the calls of r->infer(): what the ports were bound to
      tail_copies |-> 0 ]     \* copy_to calls from or to the tail buffers

\* The call of unsafe_infer for a body that is not spatial, with one element
\* at its input.
PlainCall(step) ==
    [SpatialCall(1, 1, 0, step, "none") EXCEPT !.stage = "plain", !.spatial = FALSE]

SpatialCalls ==
    { SpatialCall(nway, nway_iters, tail_size, step, helper_state) :
        nway \in 1 .. MaxNway, nway_iters \in 0 .. MaxNwayIters,
        tail_size \in 0 .. (MaxNway - 1), step \in {1, 2},
        helper_state \in {"none", "pending"} }
    \cup { PlainCall(step) : step \in {1, 2} }

\* spatial.range > 0 and spatial.tail_size = range % nway.
WellFormedCall(s) == s.tail_size < s.nway /\ s.nway * s.nway_iters + s.tail_size > 0

\* A write of the tensor src through the view v of dst.
WriteThrough(dst, v, src) ==
    [x \in DOMAIN dst |->
        IF \E k \in DOMAIN v : v[k] = x
        THEN src[CHOOSE k \in DOMAIN v : v[k] = x]
        ELSE dst[x]]

\* The elements of src the view v selects.
ReadThrough(src, v) == [k \in DOMAIN v |-> src[v[k]]]

Offsets(v) == {v[k] : k \in DOMAIN v}

\* A tail copy-back that writes at the 0th offset, as the tail buffers are.
TailCopyBack_AtZero(s) ==
    LET in_view == view(0, s.tail_size)
        out_view == view(0, s.tail_size) IN
    [s EXCEPT !.outputs = WriteThrough(@, out_view, ReadThrough(s.output_tails, in_view)),
              !.written = @ \cup Offsets(out_view),
              !.tail_copies = @ + 1]

\* An iteration that binds the views at the tile's index, not at its offset.
TileIteration_AtIndex(s) ==
    LET in_view == view(s.i, s.nway)
        out_view == view(s.i, s.nway)
        result == IdentityBody(ReadThrough(s.inputs, in_view)) IN
    [s EXCEPT !.outputs = WriteThrough(@, out_view, result),
              !.written = @ \cup Offsets(out_view),
              !.runs = Append(@, [bound |-> "views", offset |-> s.i, len |-> s.nway]),
              !.i = @ + 1,
              !.offset = @ + s.nway]

\* One iteration of the loop over nway_iters: the views of the tile are bound
\* and the body runs.
TileIteration(s) ==
    LET in_view == view(s.offset, s.nway)
        out_view == view(s.offset, s.nway)
        result == IdentityBody(ReadThrough(s.inputs, in_view)) IN
    [s EXCEPT !.outputs = WriteThrough(@, out_view, result),
              !.written = @ \cup Offsets(out_view),
              !.runs = Append(@, [bound |-> "views", offset |-> s.offset, len |-> s.nway]),
              !.i = @ + 1,
              !.offset = @ + s.nway]

\* The tail: the sub-range of the input is copied to the tail buffer.
TailCopyIn(s) ==
    LET in_view == view(s.offset, s.tail_size)
        out_view == view(0, s.tail_size) IN
    [s EXCEPT !.input_tails = WriteThrough(@, out_view, ReadThrough(s.inputs, in_view)),
              !.tail_copies = @ + 1]

\* The tail: the body runs on the full-nway tail buffers.
TailInfer(s) ==
    [s EXCEPT !.output_tails = IdentityBody(s.input_tails),
              !.runs = Append(@, [bound |-> "tails", offset |-> 0, len |-> s.nway])]

\* The tail: the sub-range of the output tail buffer is copied to the output.
TailCopyBack(s) ==
    LET in_view == view(0, s.tail_size)
        out_view == view(s.offset, s.tail_size) IN
    [s EXCEPT !.outputs = WriteThrough(@, out_view, ReadThrough(s.output_tails, in_view)),
              !.written = @ \cup Offsets(out_view),
              !.tail_copies = @ + 1]

\* unsafe_infer of a body that is not spatial: r->infer() on the tensors bound
\* to the ports.
SpInfer ==
    /\ sp.stage = "plain"
    /\ sp' = [sp EXCEPT !.outputs = IdentityBody(sp.inputs),
                        !.written = DOMAIN sp.outputs,
                        !.runs = Append(@, [bound |-> "ports", offset |-> 0,
                                            len |-> 1]),
                        !.stage = "done"]
    /\ UNCHANGED << request_vars, t4 >>

SpTile ==
    /\ sp.stage = "loop" /\ sp.i < sp.nway_iters
    /\ sp' = TileIteration(sp)
    /\ UNCHANGED << request_vars, t4 >>

SpTail ==
    /\ sp.stage = "loop" /\ sp.i = sp.nway_iters /\ sp.tail_size > 0
    /\ sp' = [TailCopyBack(TailInfer(TailCopyIn(sp))) EXCEPT !.stage = "done"]
    /\ UNCHANGED << request_vars, t4 >>

SpReturn ==
    /\ sp.stage = "loop" /\ sp.i = sp.nway_iters /\ sp.tail_size = 0
    /\ sp' = [sp EXCEPT !.stage = "done"]
    /\ UNCHANGED << request_vars, t4 >>

\* The std::async task of unsafe_during, running bind_global_parameters for
\* the next call of the body while the loop is under way: it registers the
\* next call's global input in the m_spatial_io entry the loop reads.
SpHelper ==
    /\ sp.stage = "loop" /\ sp.helper = "pending"
    /\ sp' = [sp EXCEPT !.inputs = NextCallInput(sp.nway * sp.nway_iters + sp.tail_size),
                        !.helper = "done"]
    /\ UNCHANGED << request_vars, t4 >>

\* ---------------------------------------------------------------- 4-bit tensors
\* A tensor of 4-bit elements is its bytes, byte k at t[k]; uint8_t arithmetic.
T4Idle == [stage |-> "idle"]

hi4(x) == x \div 16
lo4(x) == x % 16

\* tread_4b(t, r, c, COLS): size_t arithmetic, r * COLS / 2 rounds down.
tread_4b(t, r, c, COLS) ==
    LET trow == (r * COLS) \div 2
        telem == trow + c \div 2 IN
    IF c % 2 = 0 THEN lo4(t[telem]) ELSE hi4(t[telem])

\* twrite_4b(t, value, r, c, COLS): the tensor after the write.
twrite_4b(t, value, r, c, COLS) ==
    LET trow == (r * COLS) \div 2
        telem == trow + c \div 2 IN
    [t EXCEPT ![telem] = IF c % 2 = 0
                         THEN (hi4(@) * 16 + lo4(value)) % 256
                         ELSE (lo4(value) * 16 + lo4(@)) % 256]

\* The bytes of a ROWS x COLS tensor of 4-bit elements, and a content in
\* which neighbouring nibbles differ.
ByteSize(ROWS, COLS) == (ROWS * COLS + 1) \div 2
Content(ROWS, COLS, seed) ==
    [k \in 0 .. (ByteSize(ROWS, COLS) - 1) |-> (seed + 37 * k) % 256]

\* The values written: uint8_t, below and above 16.
WrittenValues == {0, 9, 31, 255}
ContentSeeds == {27, 164}

\* One call of twrite_4b followed by tread_4b of the same element.
FourBitCalls ==
    { [stage |-> "given", ROWS |-> R, COLS |-> C, r |-> r, c |-> c, value |-> v,
       before |-> Content(R, C, seed), data |-> Content(R, C, seed), got |-> NONE] :
         R \in 1 .. MaxRows, C \in 1 .. MaxCols, r \in 0 .. (MaxRows - 1),
         c \in 0 .. (MaxCols - 1), v \in WrittenValues, seed \in ContentSeeds }

InTensor(call) == call.r < call.ROWS /\ call.c < call.COLS

T4Write ==
    /\ t4.stage = "given"
    /\ t4' = [t4 EXCEPT !.data = twrite_4b(@, t4.value, t4.r, t4.c, t4.COLS),
                        !.stage = "written"]
    /\ UNCHANGED << request_vars, sp >>

T4Read ==
    /\ t4.stage = "written"
    /\ t4' = [t4 EXCEPT !.got = tread_4b(t4.data, t4.r, t4.c, t4.COLS),
                        !.stage = "read"]
    /\ UNCHANGED << request_vars, sp >>

\* ---------------------------------------------------------------- transitions
Commit(R) ==
    /\ rq' = R.rq
    /\ nh' = R.nh
    /\ device_it' = R.dit
    /\ m_subrequests' = R.subs
    /\ m_funcall_pipeline' =
           [i \in Subgraphs |-> [m_funcall_pipeline[i] EXCEPT !.subrequest = R.resv[i]]]
    /\ m_subrequest_devices' = R.devs
    /\ m_spatial_io' = R.sio
    /\ host_gather_obs' = [gathered |-> R.gathered, early |-> R.early]

Frozen ==
    UNCHANGED << cfg, m_use_function_pipelining, m_funcall_heads, m_funcall_result,
                 m_port_to_tensor, m_subrequests_gio, sp, t4 >>

\* Where the caller's thread goes after a helper returned R.
After(R, normal) ==
    IF R.fault THEN "crashed" ELSE IF R.thrown THEN "fatal" ELSE normal

\* The message of an exception: its literal text and the subgraph indices
\* formatted into it.
NoError == [text |-> "", subgraphs |-> {}]
NoDevicesError == [text |-> "Failed to compile. No more devices are left!", subgraphs |-> {}]
StructuralError(R) ==
    [text |-> "FATAL: Prev. Output Request in input_to_prev_output mapping was optimized out, but it consumer request wasn't!",
     subgraphs |-> R.thrown_at]

InitRequest ==
    /\ cfg \in Configs
    /\ m_use_function_pipelining \in BOOLEAN
    /\ m_funcall_result = CtorFuncallResult
    /\ m_port_to_tensor = CtorPortToTensor
    /\ m_subrequests_gio = CtorGio
    /\ \E C \in {Constructed} : \E P \in {CtorPipeline} :
        /\ m_funcall_heads = P.heads
        /\ rq = C.rq
        /\ nh = C.nh
        /\ device_it = C.dit
        /\ m_subrequests = C.subs
        /\ m_funcall_pipeline =
               [i \in Subgraphs |-> [subrequest |-> C.resv[i], next |-> P.nxt[i]]]
        /\ m_subrequest_devices = C.devs
        /\ m_spatial_io = C.sio
        /\ pc = After(C, "idle")
        /\ error_msg = IF C.thrown THEN StructuralError(C) ELSE NoError
    /\ m_now_idx = NONE
    /\ m_run_iter = 0
    /\ failover = FALSE
    /\ next_prepared = FALSE
    /\ helper = "none"
    /\ spos = NONE
    /\ obs = ObsInit
    /\ host_gather_obs = [gathered |-> {}, early |-> {}]

Init == InitRequest /\ sp = SpIdle /\ t4 = T4Idle

\* A preparation that leaves the heads' closures out.
prepare_for_infer_NoHeads(R) == bind_global_parameters(R, next(0))

\* prepare_for_infer: the heads' closures, in the order of m_funcall_heads.
RECURSIVE UnpackHeads(_, _)
UnpackHeads(R, k) ==
    IF k > Len(m_funcall_heads) THEN R
    ELSE UnpackHeads(unpack_closure(R, m_funcall_heads[k], R.subs[m_funcall_heads[k]]), k + 1)

prepare_for_infer(R) == UnpackHeads(bind_global_parameters(R, next(0)), 1)

\* IBaseInferRequest::infer up to its loop.
StartInfer ==
    /\ pc = "idle"
    /\ m_run_iter < MaxInfer
    /\ LET R == prepare_for_infer([Cur EXCEPT !.gathered = {}, !.early = {}]) IN
        /\ Commit(R)
        /\ pc' = After(R, "loop")
    /\ m_now_idx' = 0
    /\ Frozen
    /\ UNCHANGED << m_run_iter, failover, next_prepared, error_msg, helper, spos, obs >>

\* Another request of the same compiled model failed over body r to device t
\* (the case the comment at the top of the failover loop describes).
OtherRequestFailover ==
    /\ pc = "idle"
    /\ \E r \in Subgraphs : \E t \in (device_it[r] + 1) .. NumDevices :
        /\ m_subrequests[r] # NULL
        /\ device_it' = [device_it EXCEPT ![r] = t]
    /\ obs.injected < MaxFailures
    /\ obs' = [obs EXCEPT !.clean = FALSE, !.injected = @ + 1]
    /\ Frozen
    /\ UNCHANGED << rq, nh, host_gather_obs, m_subrequests, m_funcall_pipeline, m_subrequest_devices,
                    m_spatial_io, m_now_idx, m_run_iter, pc, failover, next_prepared,
                    error_msg, helper, spos >>

\* infer(): the loop is over.
FinishInfer ==
    /\ pc = "loop"
    /\ m_now_idx = cfg.N
    /\ m_now_idx' = NONE
    /\ m_run_iter' = m_run_iter + 1
    /\ pc' = "idle"
    /\ Frozen
    /\ UNCHANGED << device_it, rq, nh, host_gather_obs, m_subrequests, m_funcall_pipeline,
                    m_subrequest_devices, m_spatial_io, failover, next_prepared,
                    error_msg, helper, spos, obs >>

\* infer(): a subgraph without a subrequest is skipped.
SkipSubrequest ==
    /\ pc = "loop"
    /\ m_now_idx < cfg.N
    /\ ~valid_subrequest(m_now_idx)
    /\ m_now_idx' = m_now_idx + 1
    /\ Frozen
    /\ UNCHANGED << device_it, rq, nh, host_gather_obs, m_subrequests, m_funcall_pipeline,
                    m_subrequest_devices, m_spatial_io, m_run_iter, pc, failover,
                    next_prepared, error_msg, helper, spos, obs >>

\* run_subrequest_for_success(idx) up to its loop.
BeginRun ==
    /\ pc = "loop"
    /\ m_now_idx < cfg.N
    /\ valid_subrequest(m_now_idx)
    /\ pc' = "attempt"
    /\ failover' = FALSE
    /\ next_prepared' = FALSE
    /\ obs' = [ObsInit EXCEPT !.clean = obs.clean, !.injected = obs.injected]
    /\ Frozen
    /\ UNCHANGED << device_it, rq, nh, host_gather_obs, m_subrequests, m_funcall_pipeline,
                    m_subrequest_devices, m_spatial_io, m_now_idx, m_run_iter,
                    error_msg, helper, spos >>

\* One pass of the while loop up to the call of unsafe_run_this_prep_next, and
\* the branch that call takes.
Attempt ==
    /\ pc = "attempt"
    /\ LET idx == m_now_idx
           real_idx == real(idx)
           R1 == IF m_subrequest_devices[real_idx] # device_it[real_idx]
                 THEN recreate_subrequests(Cur, real_idx, NoDevice)
                 ELSE Cur
           R2 == bind_global_results(R1, idx)
           R3 == IF HasReplacedBy(idx) THEN function_prologue(R2, idx) ELSE R2
           mode == Mode(idx)
           target == CASE mode = "throws" -> "failed"
                       [] IsSpatial(real_idx) -> "spatial"
                       [] mode \in {"infer", "infer_bind"} -> "infer"
                       [] OTHER -> "start_async" IN
        /\ Commit(R3)
        /\ pc' = After(R3, target)
        /\ spos' = IF After(R3, target) = "spatial" THEN 0 ELSE NONE
        /\ helper' = IF After(R3, target) = "spatial" /\ mode \notin {"infer", "infer_bind"}
                     THEN "pending" ELSE "none"
        /\ obs' = [obs EXCEPT
                     !.events = @ \o R3.events,
                     !.attempts = IF mode = "throws" THEN @ ELSE @ + 1,
                     !.devices = IF mode = "throws" THEN @ ELSE Append(@, R3.dit[real_idx]),
                     !.fails = IF mode = "throws" THEN @ + 1 ELSE @,
                     !.inflight = IF After(R3, target) = "spatial" THEN R3.subs[real_idx] ELSE NULL,
                     !.exec = IF After(R3, target) = "spatial" THEN "started" ELSE "none",
                     !.task = "none", !.f_touched = {}, !.f_sio = {}, !.main_sio = {},
                     !.exec_written = {},
                     !.clean = @ /\ R3.events = << >> /\ mode # "throws"]
        /\ error_msg' = IF R3.thrown THEN StructuralError(R3) ELSE error_msg
    /\ Frozen
    /\ UNCHANGED << m_now_idx, m_run_iter, failover, next_prepared >>

\* An execution may fail wherever the subrequest is asked to run; the
\* exploration injects at most MaxFailures failures.
MayFail == obs.injected < MaxFailures

Failed == [obs EXCEPT !.fails = @ + 1, !.inflight = NULL, !.clean = FALSE,
                      !.injected = @ + 1]

\* unsafe_during, non-spatial: r->start_async().
StartAsync ==
    /\ pc = "start_async"
    /\ \/ /\ pc' = "task"
          /\ obs' = [obs EXCEPT !.inflight = m_subrequests[real(m_now_idx)],
                                !.exec = "started",
                                !.exec_written = ExecWrites(Cur, m_subrequests[real(m_now_idx)])]
       \/ /\ MayFail
          /\ pc' = "failed"
          /\ obs' = Failed
    /\ Frozen
    /\ UNCHANGED << device_it, rq, nh, host_gather_obs, m_subrequests, m_funcall_pipeline,
                    m_subrequest_devices, m_spatial_io, m_now_idx, m_run_iter,
                    failover, next_prepared, error_msg, helper, spos >>

\* unsafe_during, non-spatial: f() on the caller's thread.
RunTask ==
    /\ pc = "task"
    /\ LET F == PrepTask(Cur, m_now_idx, next_prepared) IN
        /\ Commit(F.R)
        /\ next_prepared' = F.np
        /\ pc' = After(F.R, "wait")
        /\ obs' = [obs EXCEPT !.task = "done", !.f_touched = F.R.touched,
                              !.f_sio = F.R.sio_acc,
                              !.prepared = @ + Len(F.R.binds)]
    /\ Frozen
    /\ UNCHANGED << m_now_idx, m_run_iter, failover, error_msg, helper, spos >>

\* unsafe_during, non-spatial: r->wait().
Wait ==
    /\ pc = "wait"
    /\ \/ /\ pc' = "success"
          /\ obs' = [obs EXCEPT !.inflight = NULL, !.exec = "done"]
       \/ /\ MayFail
          /\ pc' = "failed"
          /\ obs' = Failed
    /\ Frozen
    /\ UNCHANGED << device_it, rq, nh, host_gather_obs, m_subrequests, m_funcall_pipeline,
                    m_subrequest_devices, m_spatial_io, m_now_idx, m_run_iter,
                    failover, next_prepared, error_msg, helper, spos >>

\* A step that runs the body and prepares nothing for the next call.
AfterInfer_NoBind(R, idx) == R

\* What follows unsafe_infer on the caller's thread in unsafe_run_this_prep_next.
AfterInfer(R, idx) ==
    IF Mode(idx) = "infer_bind" THEN bind_global_parameters(R, next(idx + 1)) ELSE R

\* unsafe_infer, non-spatial: r->infer().
Infer ==
    /\ pc = "infer"
    /\ \/ LET R == AfterInfer(Cur, m_now_idx) IN
            /\ Commit(R)
            /\ pc' = After(R, "success")
            /\ obs' = [obs EXCEPT !.exec = "done",
                                  !.prepared = @ + Len(R.binds),
                                  !.exec_written = ExecWrites(Cur, m_subrequests[real(m_now_idx)])]
       \/ /\ MayFail
          /\ pc' = "failed"
          /\ obs' = Failed
          /\ UNCHANGED << device_it, rq, nh, host_gather_obs, m_subrequests, m_funcall_pipeline,
                          m_subrequest_devices, m_spatial_io >>
    /\ Frozen
    /\ UNCHANGED << m_now_idx, m_run_iter, failover, next_prepared, error_msg,
                    helper, spos >>

\* unsafe_infer, spatial: one tile, or the tail, with its r->infer().
SpatialStep ==
    /\ pc = "spatial"
    /\ spos \in 0 .. LastStep
    /\ LET real_idx == real(m_now_idx)
           R == IF spos < NwayIters
                THEN TileOutputs(TileInputs(Cur, real_idx, spos, cfg.sparams[real_idx + 1]),
                                 real_idx, spos, 0)
                ELSE TailOutputs(TailInputs(Cur, real_idx, cfg.sparams[real_idx + 1]),
                                 real_idx, 0) IN
        /\ Commit(R)
        /\ \/ /\ spos' = IF R.fault THEN Threw ELSE IF spos = LastStep THEN Done ELSE spos + 1
              /\ pc' = After(R, "spatial")
              /\ obs' = [obs EXCEPT
                           !.main_sio = @ \cup SpatialAccesses(real_idx),
                           !.exec_written =
                               IF R.fault THEN @
                               ELSE @ \cup ExecWrites(R, R.subs[real_idx])
                                      \cup (IF spos < NwayIters THEN {}
                                            ELSE TailCopyWrites(R, real_idx))]
           \/ /\ MayFail
              /\ spos' = Threw
              /\ pc' = After(R, "spatial")
              /\ obs' = [obs EXCEPT !.main_sio = @ \cup SpatialAccesses(real_idx)]
    /\ Frozen
    /\ UNCHANGED << m_now_idx, m_run_iter, failover, next_prepared, error_msg, helper >>

\* unsafe_during, spatial: f() on the std::async task.
HelperRun ==
    /\ pc = "spatial"
    /\ helper = "pending"
    /\ LET F == PrepTask(Cur, m_now_idx, next_prepared) IN
        /\ Commit(F.R)
        /\ next_prepared' = F.np
        /\ pc' = After(F.R, "spatial")
        /\ obs' = [obs EXCEPT !.task = "done", !.f_touched = F.R.touched,
                              !.f_sio = F.R.sio_acc,
                              !.prepared = @ + Len(F.R.binds)]
    /\ helper' = "done"
    /\ Frozen
    /\ UNCHANGED << m_now_idx, m_run_iter, failover, error_msg, spos >>

\* A join that does not wait for the task.
Joined_Detached == TRUE

\* Whether future.wait() (or the future's destructor) returns.
Joined == helper # "pending"

\* The spatial loop is over: the join of unsafe_during, and what follows
\* unsafe_infer otherwise.
Join ==
    /\ pc = "spatial"
    /\ spos \in {Done, Threw}
    /\ Joined
    /\ IF spos = Threw
       THEN /\ pc' = "failed"
            /\ obs' = Failed
            /\ UNCHANGED << device_it, rq, nh, host_gather_obs, m_subrequests, m_funcall_pipeline,
                            m_subrequest_devices, m_spatial_io >>
       ELSE LET R == IF helper = "none" THEN AfterInfer(Cur, m_now_idx) ELSE Cur IN
            /\ Commit(R)
            /\ pc' = After(R, "success")
            /\ obs' = [obs EXCEPT !.inflight = NULL, !.exec = "done",
                                  !.prepared = @ + Len(R.binds)]
    /\ helper' = "none"
    /\ spos' = NONE
    /\ Frozen
    /\ UNCHANGED << m_now_idx, m_run_iter, failover, next_prepared, error_msg >>

\* A failover branch that recreates the handles before it looks at what
\* compile_for_success returned.
FailoverResult_RecreateFirst(R, idx, t, ub) ==
    LET advanced == [R.dit EXCEPT ![idx] = @ + 1]
        compiled == compile_for_success(advanced, real(idx), t)
        created == recreate_subrequests([R EXCEPT !.dit = compiled.dit], idx, ub) IN
    IF ~compiled.ok THEN [created EXCEPT !.thrown = TRUE] ELSE created

\* The failover branch of the while loop (should_recreate); t is what
\* compile_for_success finds and ub what *device_it reads past the end.
FailoverResult(R, idx, t, ub) ==
    LET advanced == [R.dit EXCEPT ![idx] = @ + 1]
        compiled == compile_for_success(advanced, real(idx), t) IN
    IF ~compiled.ok
    THEN [R EXCEPT !.dit = compiled.dit, !.thrown = TRUE]
    ELSE recreate_subrequests([R EXCEPT !.dit = compiled.dit], idx, ub)

Failover ==
    /\ pc = "failed"
    /\ obs.fails <= MaxFailures
    /\ LET idx == m_now_idx
           advanced == [device_it EXCEPT ![idx] = @ + 1] IN
       \E t \in CompileOutcomes(advanced, real(idx)) : \E ub \in NONE .. NumDevices :
         LET R == FailoverResult(Cur, idx, t, ub) IN
           /\ Commit(R)
           /\ pc' = After(R, "attempt")
           /\ error_msg' = IF t > NumDevices THEN NoDevicesError
                           ELSE IF R.thrown THEN StructuralError(R) ELSE error_msg
           /\ obs' = [obs EXCEPT !.events = R.events, !.compile_ok = t <= NumDevices]
    /\ failover' = TRUE
    /\ Frozen
    /\ UNCHANGED << m_now_idx, m_run_iter, next_prepared, helper, spos >>

\* A swap that does not look at the call site's successor.
SwapNeeded_AnyCall(idx) == m_use_function_pipelining /\ HasReplacedBy(idx)

\* The tail of run_subrequest_for_success (if (job_done)), and back to the loop
\* of infer().
SwapNeeded(idx) == m_use_function_pipelining /\ m_funcall_pipeline[idx].next # NONE

Success ==
    /\ pc = "success"
    /\ LET idx == m_now_idx
           real_idx == real(idx) IN
       IF SwapNeeded(idx)
       THEN /\ m_subrequests' = [m_subrequests EXCEPT ![real_idx] =
                                    m_funcall_pipeline[real_idx].subrequest]
            /\ m_funcall_pipeline' = [m_funcall_pipeline EXCEPT ![real_idx].subrequest =
                                         m_subrequests[real_idx]]
       ELSE UNCHANGED << m_subrequests, m_funcall_pipeline >>
    /\ m_now_idx' = m_now_idx + 1
    /\ pc' = "loop"
    /\ Frozen
    /\ obs' = [ObsInit EXCEPT !.clean = obs.clean, !.injected = obs.injected]
    /\ UNCHANGED << device_it, rq, nh, host_gather_obs, m_subrequest_devices, m_spatial_io, m_run_iter,
                    failover, next_prepared, error_msg, helper, spos >>

Next ==
    \/ StartInfer
    \/ OtherRequestFailover
    \/ FinishInfer
    \/ SkipSubrequest
    \/ BeginRun
    \/ Attempt
    \/ StartAsync
    \/ RunTask
    \/ Wait
    \/ Infer
    \/ SpatialStep
    \/ HelperRun
    \/ Join
    \/ Failover
    \/ Success

Spec == Init /\ [][Next]_vars

\* unsafe_infer of a spatial body on its own, for every nway, nway_iters and
\* tail_size up to the bounds.
SpatialInit ==
    /\ InitRequest
    /\ cfg = CfgTwoCallsSpatial
    /\ m_use_function_pipelining
    /\ sp \in {s \in SpatialCalls : WellFormedCall(s)}
    /\ t4 = T4Idle

SpatialNext == SpInfer \/ SpTile \/ SpTail \/ SpReturn \/ SpHelper

SpatialSpec == SpatialInit /\ [][SpatialNext]_vars

\* twrite_4b followed by tread_4b on its own, for every tensor shape, element
\* and value up to the bounds.
FourBitInit ==
    /\ InitRequest
    /\ cfg = CfgTwoCalls
    /\ ~m_use_function_pipelining
    /\ sp = SpIdle
    /\ t4 \in {call \in FourBitCalls : InTensor(call)}

FourBitNext == T4Write \/ T4Read

FourBitSpec == FourBitInit /\ [][FourBitNext]_vars

\* ================================================================ properties
Executing == pc \in {"start_async", "task", "wait", "infer", "spatial"}
NowReal == real(m_now_idx)

\* C1: run_subrequest_for_success(idx) makes at most as many execution
\* attempts as the fallback list of the body has devices, for normal subgraphs
\* and for call sites alike.
C1_AtMostOneAttemptPerDevice == obs.attempts <= NumDevices

\* C2: between two attempts of one run_subrequest_for_success the device
\* iterator of body real(idx) has moved strictly forward, so the devices of the
\* attempts are strictly increasing and none is tried twice.
C2_DevicesStrictlyForward ==
    \A k \in 1 .. (Len(obs.devices) - 1) : obs.devices[k] < obs.devices[k + 1]

\* C3: when compile_for_success returns false after a failed attempt, the step
\* raises the fatal error without creating or replacing any handle, and nothing
\* (no attempt, no swap) happens after it.
C3_FatalLeavesHandlesAlone ==
    [][ /\ pc # "fatal"
        /\ (pc = "failed" /\ ~obs'.compile_ok) =>
              /\ pc' = "fatal"
              /\ error_msg' = NoDevicesError
              /\ rq' = rq /\ nh' = nh
              /\ m_subrequests' = m_subrequests
              /\ m_funcall_pipeline' = m_funcall_pipeline
              /\ obs'.attempts = obs.attempts ]_vars

C3_Witness == pc = "fatal" /\ ~obs.compile_ok /\ obs.fails > 0

\* C4: the error raised when failover is exhausted names the failing subgraph.
C4_ErrorNamesSubgraph ==
    (pc = "fatal" /\ ~obs.compile_ok) => m_now_idx \in error_msg.subgraphs

\* C5: at every attempt that follows a failed one, the handles of real(idx)
\* have been recreated exactly once since the failure and wiring has been
\* re-run after the recreation.
C5_OneRecreationThenWiring ==
    (Executing /\ obs.fails > 0) => obs.events = << "recreate", "connect" >>

\* C6: in a run without failures, when function call idx executes, every
\* closure of idx that requires an update is the last tensor written to its
\* port ParamBase + c of the handle that executes.
C6_ClosuresOfExecutingCall ==
    (Executing /\ obs.clean /\ HasReplacedBy(m_now_idx)) =>
        \A c \in 0 .. (NumClosures(m_now_idx) - 1) :
            UpdateRequired(m_now_idx, c) =>
                rq[m_subrequests[NowReal]].fill[ParamBase(m_now_idx) + c]
                    = ClosureTensor(m_now_idx, c)

C6_Witness ==
    /\ C6_ClosuresOfExecutingCall
    /\ Executing /\ obs.clean /\ m_use_function_pipelining
    /\ HasReplacedBy(m_now_idx) /\ NowReal # m_now_idx
    /\ NumClosures(m_now_idx) > 0
    /\ m_run_iter > 0

\* The step exchanges the primary and the reserve handle of body r.
SwapStep(r) ==
    /\ m_funcall_pipeline[r].subrequest # NULL
    /\ m_subrequests'[r] = m_funcall_pipeline[r].subrequest
    /\ m_funcall_pipeline'[r].subrequest = m_subrequests[r]

\* C7: the primary and the reserve handle of a body are exchanged by a step
\* exactly when that step is the successful end of run_subrequest_for_success
\* for a call site of the body, pipelining is on and the call site has a
\* successor; the execution is over by then, and a failed attempt exchanges
\* nothing.
C7_SwapOnlyOnPipelinedSuccess ==
    [][ \A r \in Subgraphs :
          SwapStep(r) <=> /\ pc = "success"
                          /\ obs.exec = "done"
                          /\ r = NowReal
                          /\ m_use_function_pipelining
                          /\ m_funcall_pipeline[m_now_idx].next # NONE ]_vars

C7_Witness ==
    /\ pc = "loop" /\ m_now_idx > 0 /\ obs.clean /\ m_run_iter = 0
    /\ HasReplacedBy(m_now_idx - 1)
    /\ m_funcall_pipeline[m_now_idx - 1].next # NONE
    /\ m_funcall_pipeline[real(m_now_idx - 1)].subrequest # NULL
    /\ m_funcall_pipeline[real(m_now_idx - 1)].subrequest < m_subrequests[real(m_now_idx - 1)]

\* C8: while the primary handle of the executing subgraph is in flight, the
\* preparation task has not written to it.
C8_TaskLeavesInflightAlone ==
    obs.inflight # NULL => obs.inflight \notin obs.f_touched

C8_Witness ==
    /\ pc = "wait" /\ obs.inflight = m_subrequests[NowReal]
    /\ m_funcall_pipeline[NowReal].subrequest \in obs.f_touched

\* C9: the task that runs on the helper thread during a spatial execution
\* accesses no m_spatial_io entry that the spatial loop accesses.
C9_HelperSharesNoSpatialEntry == obs.f_sio \cap obs.main_sio = {}

\* C10: unsafe_during has returned only when the execution and the task are
\* both over; without spatial tiling the task runs between start_async and
\* wait.
C10_DuringCompletesBoth ==
    /\ []((pc = "success" /\ Mode(m_now_idx) \notin {"infer", "infer_bind"}) =>
              (obs.exec = "done" /\ obs.task = "done"))
    /\ []((pc = "task") => (obs.exec = "started" /\ obs.task = "none"))
    /\ []((pc = "wait") => (obs.exec = "started" /\ obs.task = "done"))
    /\ [][ (obs.task = "none" /\ obs'.task = "done" /\ ~IsSpatial(NowReal)) =>
              (pc = "task" /\ pc' \in {"wait", "fatal"}) ]_vars

C10_Witness ==
    /\ pc = "success" /\ IsSpatial(NowReal)
    /\ Mode(m_now_idx) \notin {"infer", "infer_bind"}
    /\ obs.exec = "done" /\ obs.task = "done"

LinkSet == {cfg.links[k] : k \in 1 .. Len(cfg.links)}

\* A link between two normal subgraphs that both hold a handle in R.
NormalLink(R, l) ==
    /\ ~HasReplacedBy(l[1]) /\ ~HasReplacedBy(l[3])
    /\ R.subs[l[1]] # NULL /\ R.subs[l[3]] # NULL

\* The consumer's input port and the producer's output port hold one tensor.
SharesTensor(R, l) == R.rq[R.subs[l[1]]].in[l[2]] = R.rq[R.subs[l[3]]].out[l[4]]

\* C11: in whatever state connect_subrequests runs and returns, right after it
\* every link between two normal subgraphs that have handles has the
\* consumer's input port and the producer's output port on the same tensor.
C11_WiringSharesTensor ==
    \E W \in {connect_subrequests(Cur)} :
        (~W.thrown /\ ~W.fault) => \A l \in LinkSet : NormalLink(W, l) => SharesTensor(W, l)

C11_Witness ==
    /\ C11_WiringSharesTensor
    /\ \E l \in LinkSet : NormalLink(Cur, l) /\ ~SharesTensor(Cur, l)
    /\ ~connect_subrequests(Cur).thrown

\* The tensor the prologue leaves for a function-call consumer at port p: the
\* one bound to the executing handle, or the one recorded in m_spatial_io for a
\* spatial body.
CallInput(idx, p) ==
    IF IsSpatial(real(idx)) THEN m_spatial_io[real(idx)].inputs[p]
    ELSE rq[m_subrequests[real(idx)]].in[p]

\* C12: every consumer of an output (s, p) of a function call s reads
\* m_funcall_result[(s, p)]: a normal consumer's input port holds it whenever
\* the consumer has a handle, and a function-call consumer holds it (in the
\* handle or in m_spatial_io.inputs) while it executes.
C12_ConsumersReadFuncallResult ==
    \A l \in LinkSet :
        HasReplacedBy(l[3]) =>
            /\ (~HasReplacedBy(l[1]) /\ m_subrequests[l[1]] # NULL) =>
                   rq[m_subrequests[l[1]]].in[l[2]] = m_funcall_result[<<l[3], l[4]>>]
            /\ (HasReplacedBy(l[1]) /\ Executing /\ m_now_idx = l[1]) =>
                   CallInput(l[1], l[2]) = m_funcall_result[<<l[3], l[4]>>]

C12_Witness ==
    /\ Executing /\ m_use_function_pipelining /\ m_run_iter > 0
    /\ \E l \in LinkSet :
          /\ HasReplacedBy(l[3]) /\ HasReplacedBy(l[1]) /\ m_now_idx = l[1]
          /\ CallInput(l[1], l[2]) = FuncallTensor(l[3], l[4])

\* C13: the results of two call sites of one body are different tensors, and
\* the execution of call j writes the results of j and of no other call site.
C13_CallWritesOwnResults ==
    /\ \A i \in Subgraphs : \A j \in Subgraphs :
          (HasReplacedBy(i) /\ HasReplacedBy(j) /\ i # j /\ real(i) = real(j)) =>
              \A p \in 0 .. (NumOutputs(real(i)) - 1) :
                  m_funcall_result[<<i, p>>] # m_funcall_result[<<j, p>>]
    /\ (m_now_idx \in Subgraphs /\ HasReplacedBy(m_now_idx)) =>
          /\ \A k \in DOMAIN m_funcall_result :
                m_funcall_result[k] \in obs.exec_written => k[1] = m_now_idx
          /\ pc = "success" =>
                \A p \in 0 .. (NumOutputs(NowReal) - 1) :
                    m_funcall_result[<<m_now_idx, p>>] \in obs.exec_written

C13_Witness ==
    /\ pc = "success" /\ m_now_idx \in Subgraphs
    /\ HasReplacedBy(m_now_idx) /\ NowReal # m_now_idx
    /\ m_funcall_result[<<m_now_idx, 0>>] \in obs.exec_written
    /\ m_funcall_result[<<NowReal, 0>>] \notin obs.exec_written

\* C14: after construction m_funcall_result has, for every function call i
\* (the body's own call included) and every output o of body real(i), an
\* entry (i, o) whose shape is the shape of the body's output port, with the
\* extent along out_dim replaced by range when the body is spatial.
C14_FuncallResultEntries ==
    \A i \in Subgraphs :
        HasReplacedBy(i) =>
            \A o \in 0 .. (NumOutputs(real(i)) - 1) :
                /\ <<i, o>> \in DOMAIN m_funcall_result
                /\ m_funcall_result[<<i, o>>][4] =
                       IF IsSpatial(real(i))
                       THEN <<PortShape(real(i), o)[1], Nway * NwayIters + TailSize>>
                       ELSE PortShape(real(i), o)

C14_Witness ==
    /\ pc = "idle" /\ m_run_iter = 0
    /\ \E i \in Subgraphs :
          /\ HasReplacedBy(i) /\ real(i) # i /\ IsSpatial(real(i))
          /\ <<i, 0>> \in DOMAIN m_funcall_result
          /\ m_funcall_result[<<i, 0>>][4][2] = Range

\* C15: when run_subrequest_for_success(idx) has succeeded for a subgraph idx
\* that is not a function call, the tensor of every global output that comes
\* from an output port of idx was bound to that port during the execution, so
\* the execution wrote it.
C15_GlobalResultsWritten ==
    (pc = "success" /\ ~HasReplacedBy(m_now_idx)) =>
        \A g \in GlobalOutputs :
            cfg.outputs_from[g + 1][1] = m_now_idx =>
                m_port_to_tensor.outputs[g] \in obs.exec_written

C15_Witness ==
    /\ pc = "success" /\ ~HasReplacedBy(m_now_idx) /\ obs.fails > 0
    /\ \E g \in GlobalOutputs :
          /\ cfg.outputs_from[g + 1][1] = m_now_idx
          /\ m_port_to_tensor.outputs[g] \in obs.exec_written

\* ---------------------------------------------------------------------
\* C16: whenever a link has an optimized-out producer and a consumer that is
\* not optimized out (a normal subgraph or a function call), wiring ends in
\* the fatal diagnostic, which names the producer and the consumer.
DeadProducerLink(l) == IsOptimizedOut(l[3]) /\ ~IsOptimizedOut(l[1])
C16_DeadProducerIsFatal ==
    \A l \in LinkSet :
        DeadProducerLink(l) =>
            \E W \in {connect_subrequests(Cur)} :
                W.thrown /\ W.thrown_at = {l[3], l[1]}

\* ---------------------------------------------------------------------
\* C17: a link whose consumer is optimized out is skipped by wiring: wiring
\* that link raises no error and changes no binding, whether the producer is
\* a normal subgraph, a function call or optimized out.
DeadConsumerLink(l) == IsOptimizedOut(l[1])
C17_DeadConsumerIsSkipped ==
    \A l \in LinkSet :
        DeadConsumerLink(l) =>
            \E W \in {ConnectLink(Cur, l)} :
                ~W.thrown /\ ~W.fault /\ W.rq = rq

\* ---------------------------------------------------------------------
\* C18: wiring is idempotent: running connect_subrequests a second time
\* leaves every input port of every handle bound to the tensor it was bound
\* to after the first run.
InputBindings(R) == [h \in DOMAIN R.rq |-> R.rq[h].in]
C18_WiringIdempotent ==
    \E W1 \in {connect_subrequests(Cur)} :
        \E W2 \in {connect_subrequests(W1)} :
            InputBindings(W2) = InputBindings(W1)

\* An output port has been rebound since the last wiring, so that the first
\* run changes an input binding, and the second run changes none.
C18_Witness ==
    /\ C18_WiringIdempotent
    /\ \E W1 \in {connect_subrequests(Cur)} :
          /\ ~W1.thrown /\ ~W1.fault
          /\ InputBindings(W1) # InputBindings(Cur)
          /\ InputBindings(connect_subrequests(W1)) = InputBindings(W1)

\* ---------------------------------------------------------------------
\* C19: for every closure that needs no update, set_tensor is called on the
\* body's input port ParamBase + c exactly once in the lifetime of the
\* request, at construction: the handle the constructor made primary has
\* that one call, and no handle, whether the reserve or one created by a
\* failover, ever receives another.
C19_FrozenClosureBoundOnce ==
    \A h \in DOMAIN rq :
        \A p \in DOMAIN rq[h].nset :
            FrozenPort(rq[h].body, p) =>
                rq[h].nset[p] = IF h = Constructed.subs[rq[h].body] THEN 1 ELSE 0

\* A call with such a closure has completed on a handle a failover created.
C19_Witness ==
    /\ C19_FrozenClosureBoundOnce
    /\ pc = "success" /\ HasReplacedBy(m_now_idx)
    /\ m_run_iter >= 1
    /\ obs.fails > 0
    /\ m_subrequests[NowReal] \notin {Constructed.subs[NowReal], Constructed.resv[NowReal]}
    /\ \E p \in DOMAIN rq[m_subrequests[NowReal]].nset : FrozenPort(NowReal, p)

\* ---------------------------------------------------------------------
\* C20: whatever calls came before, unpack_closure for a call site of a body
\* on a handle of that body writes only into tensors bound to the handle's
\* input ports, and never into a closure tensor of any call site; this
\* includes a handle whose port an earlier call bound directly to its own
\* closure tensor.
BodyHandles(idx) ==
    {m_subrequests[real(idx)], m_funcall_pipeline[real(idx)].subrequest} \ {NULL}
InputsOf(R, h) == {R.rq[h].in[p] : p \in DOMAIN R.rq[h].in}
C20_UnpackSparesClosures ==
    \A idx \in Subgraphs :
        HasReplacedBy(idx) =>
            \A h \in BodyHandles(idx) :
                \E W \in {unpack_closure(Cur, idx, h)} :
                    /\ W.written \subseteq InputsOf(W, h)
                    /\ \A t \in W.written : t[1] # "closure"

\* A handle has a port bound directly to the closure tensor of one call site,
\* and unpack_closure for another call site of the body writes on that handle.
C20_Witness ==
    /\ C20_UnpackSparesClosures
    /\ \E idx \in Subgraphs :
          /\ HasReplacedBy(idx)
          /\ \E h \in BodyHandles(idx) :
                /\ \E t \in InputsOf(Cur, h) : t[1] = "closure" /\ t[2] # idx
                /\ unpack_closure(Cur, idx, h).written # {}

\* ---------------------------------------------------------------------
\* C21: for a closure that needs no update and has scales, no inference ever
\* calls unpack1 for it: no handle has received an unpack1 call at the port
\* of such a closure.
C21_NoRuntimeUnpack1 ==
    \A h \in DOMAIN rq :
        \A p \in DOMAIN rq[h].nunpack1 :
            FrozenPort(rq[h].body, p) => rq[h].nunpack1[p] = 0

\* ---------------------------------------------------------------------
\* C22: when unsafe_infer returns from a spatial body, the offsets of the
\* output written by the invocation are exactly those of [0, range), with
\* range = nway * nway_iters + tail_size: every one of them was written by a
\* tile or by the tail copy-back, and none outside was.
SpRange == sp.nway * sp.nway_iters + sp.tail_size
C22_OutputRangeWritten ==
    sp.stage = "done" => sp.written = 0 .. (SpRange - 1)

\* An invocation with full tiles and a tail has returned.
C22_Witness ==
    /\ C22_OutputRangeWritten
    /\ sp.stage = "done" /\ sp.nway_iters > 0 /\ sp.tail_size > 0 /\ sp.nway > 1

\* C23: with a body that computes the identity on each tile, after the
\* invocation the output holds at every offset of [0, range) the element the
\* invocation's spatial input has at that offset, the offsets of the tail
\* included.
C23_IdentityRoundTrip ==
    sp.stage = "done" =>
        \A x \in 0 .. (SpRange - 1) : sp.outputs[x] = sp.given[x]

\* ---------------------------------------------------------------------
\* C24 (as amended): with pipelining on, prepare_for_infer unpacks the
\* closures of every function head into the handle held in the head's slot
\* m_subrequests, the handle that executes the head: after it, every closure
\* of a head that requires an update is the last tensor written to its port
\* of that handle.
PrepareStep == pc = "idle" /\ pc' = "loop" /\ m_use_function_pipelining
HeadSet == {m_funcall_heads[k] : k \in 1 .. Len(m_funcall_heads)}
C24_HeadsUnpackedInSlot ==
    [][PrepareStep =>
          \A id \in HeadSet :
              \A c \in 0 .. (NumClosures(id) - 1) :
                  UpdateRequired(id, c) =>
                      rq'[m_subrequests'[id]].fill[ParamBase(id) + c] = ClosureTensor(id, c)]_vars

\* C24 (as stated): with pipelining on, prepare_for_infer unpacks the
\* closures of every function head into the head's reserve handle.
C24_HeadsUnpackedInReserve ==
    [][PrepareStep =>
          \A id \in HeadSet :
              \A c \in 0 .. (NumClosures(id) - 1) :
                  UpdateRequired(id, c) =>
                      rq'[m_funcall_pipeline'[id].subrequest].fill[ParamBase(id) + c]
                          = ClosureTensor(id, c)]_vars

\* A second inference has been prepared, with a head whose reserve handle is
\* not the one that received the head's closures.
C24_Witness ==
    /\ pc = "loop" /\ m_now_idx = 0 /\ m_run_iter >= 1
    /\ m_use_function_pipelining
    /\ \E id \in HeadSet :
          \E c \in 0 .. (NumClosures(id) - 1) :
              /\ UpdateRequired(id, c)
              /\ rq[m_subrequests[id]].fill[ParamBase(id) + c] = ClosureTensor(id, c)
              /\ rq[m_funcall_pipeline[id].subrequest].fill[ParamBase(id) + c]
                     # ClosureTensor(id, c)

\* ---------------------------------------------------------------------
\* C25: when the step of idx wraps (next_idx = 0), unsafe_run_this_prep_next
\* takes the branch that performs unsafe_infer(real(idx)) and nothing else,
\* whether or not idx is a function call and whether or not subgraph 0 calls
\* the same body, with pipelining on or off.
C25_WrapStepInfersOnly ==
    (pc = "attempt" /\ next(m_now_idx + 1) = 0) => Mode(m_now_idx) = "infer"

\* ---------------------------------------------------------------------
\* C26: when a call site with a host-side gather executes, the gather of this
\* inference has run, and the closures of the call site went into the
\* executing handle after it, with pipelining on or off.
C26_GatherBeforeUnpack ==
    (Executing /\ HasGather(m_now_idx)) =>
        /\ m_now_idx \in host_gather_obs.gathered
        /\ m_now_idx \notin host_gather_obs.early

\* C27: an attempt that starts while the device recorded for slot real(idx)
\* differs from the active device of body real(idx) first recreates the
\* handles of real(idx) (the primary, and the reserve when pipelining is on)
\* and runs the wiring again, and when it goes on the recorded device is the
\* active one.
C27_MismatchRecreates ==
    [][(pc = "attempt" /\ pc' # "attempt"
        /\ m_subrequest_devices[NowReal] # device_it[NowReal]) =>
          /\ Len(obs'.events) >= Len(obs.events) + 2
          /\ SubSeq(obs'.events, Len(obs.events) + 1, Len(obs.events) + 2)
                = << "recreate", "connect" >>
          /\ m_subrequests'[NowReal] \notin DOMAIN rq \cup {NULL}
          /\ m_use_function_pipelining /\ HasReplacedBy(NowReal) =>
                /\ m_funcall_pipeline'[NowReal].subrequest \notin DOMAIN rq \cup {NULL}
                /\ m_funcall_pipeline'[NowReal].subrequest # m_subrequests'[NowReal]
          /\ m_subrequest_devices'[NowReal] = device_it'[NowReal]]_vars

\* A function call is about to execute in a handle that the check at the top
\* of the loop recreated: no execution had failed in this request.
C27_Witness ==
    /\ pc \in {"start_async", "infer", "spatial"}
    /\ HasReplacedBy(m_now_idx)
    /\ obs.fails = 0
    /\ obs.events = << "recreate", "connect" >>
    /\ m_subrequest_devices[NowReal] = device_it[NowReal]

\* C28: in every state of a constructed request, slot i holds a handle exactly
\* when subgraph i is neither optimized out nor a function call of another
\* body, and a reserve handle exists for i exactly when pipelining is on and i
\* is a function body; the reserve is not the primary.
IsFunctionBody(i) == HasReplacedBy(i) /\ real(i) = i

C28_SlotsAndReserves ==
    \A i \in Subgraphs :
        /\ m_subrequests[i] # NULL <=>
              ~IsOptimizedOut(i) /\ ~(HasReplacedBy(i) /\ real(i) # i)
        /\ m_funcall_pipeline[i].subrequest # NULL <=>
              m_use_function_pipelining /\ IsFunctionBody(i)
        /\ m_funcall_pipeline[i].subrequest # NULL =>
              /\ m_funcall_pipeline[i].subrequest # m_subrequests[i]
              /\ {m_funcall_pipeline[i].subrequest, m_subrequests[i]} \subseteq DOMAIN rq

\* With pipelining on, a function body whose handles are younger than every
\* handle of the construction (they were recreated) and were swapped since:
\* the primary is the handle that was created as the reserve.
C28_Witness ==
    /\ m_use_function_pipelining
    /\ \E i \in Subgraphs :
          /\ IsFunctionBody(i)
          /\ m_subrequests[i] > m_funcall_pipeline[i].subrequest
          /\ m_funcall_pipeline[i].subrequest > 2 * cfg.N

\* cancel_subrequest(idx): the handle cancel() is invoked on; fault: the
\* pointer it is invoked through is null.
cancel_subrequest(idx) ==
    [cancelled |-> m_subrequests[idx], fault |-> m_subrequests[idx] = NULL]

\* C29: for every valid subgraph idx, function calls of another body
\* included, cancel_subrequest(idx) invokes cancel on the live handle that
\* executes idx, the primary of slot real(idx).
C29_CancelReachesExecutingHandle ==
    \A idx \in Subgraphs :
        valid_subrequest(idx) =>
            /\ ~cancel_subrequest(idx).fault
            /\ cancel_subrequest(idx).cancelled = m_subrequests[real(idx)]
            /\ cancel_subrequest(idx).cancelled \in DOMAIN rq

\* C30: after twrite_4b(t, v, r, c) the element (r, c) reads v mod 16 and
\* every other element of the tensor reads what it read before the write,
\* for every shape of the tensor.
OtherElements(call) ==
    {e \in (0 .. (call.ROWS - 1)) \X (0 .. (call.COLS - 1)) : e # << call.r, call.c >>}

C30_WriteThenRead ==
    t4.stage = "read" =>
        /\ t4.got = t4.value % 16
        /\ \A e \in OtherElements(t4) :
              tread_4b(t4.data, e[1], e[2], t4.COLS) = tread_4b(t4.before, e[1], e[2], t4.COLS)

\* ---------------------------------------------------------------------
\* C31: unpack_closure treats closure c of call site idx in exactly one way,
\* chosen in this order: the closure is unpacked into the tensor at port
\* param_base + c when its element type differs from that tensor's; else it
\* is copied into that tensor when it requires an update and the device needs
\* a copy; else the port is rebound to the closure when it requires an update;
\* else the port is left alone.
TypeDiffers(idx, h, c) ==
    cfg.closure[idx + 1][c + 1] # TensorType(rq[h].in[ParamBase(idx) + c])

ClosureEffect(idx, h, c) ==
    LET W == unpack_closure(Cur, idx, h)
        p == ParamBase(idx) + c
        before == rq[h]
        after == W.rq[h]
        filled == /\ after.in[p] = before.in[p]
                  /\ after.fill[p] = ClosureTensor(idx, c)
                  /\ before.in[p] \in W.written
        rebound == /\ after.in[p] = ClosureTensor(idx, c)
                   /\ before.in[p] \notin W.written
        untouched == /\ after.in[p] = before.in[p]
                     /\ after.fill[p] = before.fill[p]
                     /\ before.in[p] \notin W.written IN
    IF TypeDiffers(idx, h, c) THEN filled
    ELSE IF UpdateRequired(idx, c) /\ needs_copy(Cur, idx) THEN filled
    ELSE IF UpdateRequired(idx, c) THEN rebound
    ELSE untouched

TileRun(k) == [bound |-> "views", offset |-> k * sp.nway, len |-> sp.nway]
TailRun == [bound |-> "tails", offset |-> 0, len |-> sp.nway]
Untouched(buffer) == \A k \in DOMAIN buffer : buffer[k] = UNINIT

C32_RunsOfTheBody ==
    sp.stage = "done" =>
        IF ~sp.spatial
        THEN Len(sp.runs) = 1 /\ sp.runs[1].bound = "ports"
        ELSE /\ Len(sp.runs) = sp.nway_iters + (IF sp.tail_size > 0 THEN 1 ELSE 0)
             /\ \A k \in 0 .. (sp.nway_iters - 1) : sp.runs[k + 1] = TileRun(k)
             /\ sp.tail_size > 0 => sp.runs[sp.nway_iters + 1] = TailRun
             /\ sp.tail_size = 0 =>
                   /\ sp.tail_copies = 0
                   /\ Untouched(sp.input_tails) /\ Untouched(sp.output_tails)

\* An invocation of a spatial body with several tiles and a tail has returned.
C32_Witness ==
    /\ C32_RunsOfTheBody
    /\ sp.stage = "done" /\ sp.spatial
    /\ sp.nway_iters > 1 /\ sp.tail_size > 0
    /\ Len(sp.runs) = sp.nway_iters + 1

\* ---------------------------------------------------------------------
\* C33: with pipelining on, m_funcall_heads lists the first call site of each
\* function body and nothing else, in ascending order, and the next of a call
\* site i is the smallest call site j > i of the same body, unset when there
\* is none.
SameBodyAfter(i) == {j \in Subgraphs : j > i /\ HasReplacedBy(j) /\ real(j) = real(i)}
FirstCall(i) ==
    HasReplacedBy(i) /\ \A j \in Subgraphs : j < i => ~(HasReplacedBy(j) /\ real(j) = real(i))

C33_HeadsAndNextChains ==
    m_use_function_pipelining =>
        /\ HeadSet = {i \in Subgraphs : FirstCall(i)}
        /\ \A k \in 1 .. (Len(m_funcall_heads) - 1) : m_funcall_heads[k] < m_funcall_heads[k + 1]
        /\ \A i \in Subgraphs :
              HasReplacedBy(i) =>
                 m_funcall_pipeline[i].next =
                     IF SameBodyAfter(i) = {} THEN NONE ELSE MinOf(SameBodyAfter(i))

\* Two function bodies, one of them called twice.
C33_Witness ==
    /\ m_use_function_pipelining
    /\ C33_HeadsAndNextChains
    /\ Len(m_funcall_heads) >= 2
    /\ \E i \in Subgraphs : m_funcall_pipeline[i].next # NONE

\* ---------------------------------------------------------------------
\* C34: in an inference without failures, when the execution of subgraph idx
\* starts, every global input that global_params maps to idx is bound or
\* copied to its input port of the handle that executes idx, or registered in
\* the spatial inputs of the body when the port is spatial.
ExecutionStarts ==
    \/ pc \in {"start_async", "infer"}
    \/ pc = "spatial" /\ spos = 0 /\ helper # "done"

GlobalInputBound(idx, g, port) ==
    IF is_spatial_param(idx, port)
    THEN m_spatial_io[real(idx)].inputs[port] = m_port_to_tensor.inputs[g]
    ELSE rq[m_subrequests[real(idx)]].fill[port] = m_port_to_tensor.inputs[g]

InRun == pc \in {"attempt", "start_async", "task", "wait", "infer", "spatial", "failed", "success"}
SuccessorOfOtherBody == real(next(m_now_idx + 1)) # NowReal

C35_SuccessorBoundOnce ==
    (InRun /\ SuccessorOfOtherBody) => obs.prepared <= 1

\* The successor was prepared by an attempt that failed afterwards, and a
\* later attempt has completed its task.
C35_Witness ==
    /\ InRun /\ SuccessorOfOtherBody
    /\ obs.prepared = 1
    /\ obs.fails > 0 /\ obs.attempts >= 2
    /\ obs.task = "done"
    /\ next_prepared

\* ---------------------------------------------------------------------
\* C36: with pipelining on, when an attempt of function call idx failed and
\* the handles of its body were recreated, the retry starts on a primary
\* handle that holds every closure of idx that requires an update: the closure
\* is the last tensor written to its port of that handle.
C36_RetryHasClosures ==
    (m_use_function_pipelining /\ ExecutionStarts /\ HasReplacedBy(m_now_idx)
        /\ obs.fails > 0 /\ obs.events # << >>) =>
        \A c \in 0 .. (NumClosures(m_now_idx) - 1) :
            UpdateRequired(m_now_idx, c) =>
                rq[m_subrequests[NowReal]].fill[ParamBase(m_now_idx) + c]
                    = ClosureTensor(m_now_idx, c)

\* ---------------------------------------------------------------------
\* C37: when the handle of real(idx) was recreated, by a failover or by the
\* device check at the top of the loop, the attempt of idx that follows
\* starts on a handle to which every global input that global_params maps to
\* idx is bound or copied.
C37_RecreatedHandleHasGlobalInputs ==
    (ExecutionStarts /\ "recreate" \in {obs.events[k] : k \in DOMAIN obs.events}) =>
        \A e \in m_subrequests_gio[m_now_idx].global_params :
            GlobalInputBound(m_now_idx, e[1], e[2])

\* ---------------------------------------------------------------------
\* C38: whenever the execution of a function call idx starts, on whichever
\* handle, every closure port of idx whose closure needs no update is bound to
\* the weights-bank tensor of that closure of idx.
C38_FrozenClosuresOnExecutingHandle ==
    (ExecutionStarts /\ HasReplacedBy(m_now_idx)) =>
        \A c \in 0 .. (NumClosures(m_now_idx) - 1) :
            ~UpdateRequired(m_now_idx, c) =>
                rq[m_subrequests[NowReal]].in[ParamBase(m_now_idx) + c]
                    = BankTensor(m_now_idx, c)

\* ---------------------------------------------------------------------
\* C39: when the execution of a normal subgraph starts, each of its input
\* ports linked to a normal producer that ran before it holds the tensor the
\* producer's output port is bound to, the one the producer wrote: nothing
\* rebinds a producer's output port between its execution and the start of
\* the consumer.
LinksInto(idx) == {l \in LinkSet : l[1] = idx /\ l[3] < idx /\ NormalLink(Cur, l)}

C39_ConsumerReadsProducerOutput ==
    (ExecutionStarts /\ ~HasReplacedBy(m_now_idx)) =>
        \A l \in LinksInto(m_now_idx) : SharesTensor(Cur, l)

\* ---------------------------------------------------------------------
\* C40: for every global input g and every port of a subgraph that g feeds,
\* by m_inputs_to_submodels_inputs or as a subscriber, after
\* bind_global_parameters for that subgraph the port of the subgraph's handle
\* holds g's tensor, bound or copied, or the spatial input of the body is g's
\* tensor; two ports of one subgraph fed by the same g are both served.
Feeds ==
    {<<g, cfg.inputs_to[g + 1][1], cfg.inputs_to[g + 1][2]>> :
        g \in {x \in GlobalInputs : cfg.inputs_to[x + 1] # NO_LINK}}
    \cup {cfg.subscribers[k] : k \in 1 .. Len(cfg.subscribers)}

FedAfterBind(W, f) ==
    LET g == f[1]
        sub == f[2]
        port == f[3] IN
    IF is_spatial_param(sub, port)
    THEN W.sio[real(sub)].inputs[port] = m_port_to_tensor.inputs[g]
    ELSE W.rq[BindTarget(W, sub)].fill[port] = m_port_to_tensor.inputs[g]

C40_EveryFedPortIsBound ==
    \A f \in Feeds :
        /\ m_now_idx \in Subgraphs \cup {NONE}
        /\ valid_subrequest(f[2])
        /\ BindTarget(Cur, f[2]) # NULL
        =>
            \E W \in {bind_global_parameters(Cur, f[2])} : FedAfterBind(W, f)

====
